---- MODULE Spec2Model ----
(***************************************************************************)
(* Model of the AWS resource inventory scanner (src/scripts):              *)
(*   - utils/aws_utils.py        make_api_call, the retry wrapper          *)
(*   - services/*.py             the per-domain query functions            *)
(*   - aws_resource_inventory.py AWSResourceInventory: __init__,           *)
(*                               generate_inventory, save_inventory,       *)
(*                               print_consolidated_table, and main        *)
(*   - resources.py              the static variant: its query functions,  *)
(*                               main and create_summary_tables            *)
(*                                                                         *)
(* The specifications share the variables:                                 *)
(*   Spec              one run of generate_inventory against a provider    *)
(*   NoThrottlingSpec  the same, the provider never throttling             *)
(*   RetrySpec         make_api_call alone, wrapping an arbitrary callable *)
(*   FakeProviderSpec  generate_inventory in the end-to-end scenario       *)
(*   StockedSpec       generate_inventory, the account known from the start*)
(*   MainSpec          main: construction, generate_inventory, the write   *)
(*   VpcSpec           get_vpcs_and_subnets alone                          *)
(*   SaveSpec          save_inventory alone, and json.load of its file     *)
(*   PrintSpec         print_consolidated_table alone                      *)
(*   RetryLiveSpec     RetrySpec with the loop of make_api_call fair       *)
(*   DescribeSpec      a list-then-describe function of services/*.py      *)
(*   Ec2Spec           get_ec2_instances alone                             *)
(*   BucketSpec        get_s3_buckets or get_s3_bucket_policies alone      *)
(*   RdsSpec           get_rds_instances alone                             *)
(*   StaticListSpec    resources.py: get_dynamodb_tables or get_s3_buckets *)
(*   StaticSpec        resources.py: main up to create_summary_tables      *)
(* A provider answer "Throttling"/"AccessDenied" is the ClientError the    *)
(* boto3 client operation raises, i.e. after the client-level retries of   *)
(* boto3_config (aws_utils.py:13-20) are used up.                          *)
(***************************************************************************)
EXTENDS Integers, Sequences, FiniteSets, TLC

VARIABLES
    regions,         \* self.regions, the list get_aws_regions returned
    account,         \* provider side: the remote cells <<fn, scope>>, among those
                     \* read so far, that hold a resource
    pc,              \* position in generate_inventory / in make_api_call
    region_idx,      \* index in self.regions of the loop variable `region`
    entry,           \* index of the next entry of the dict display being evaluated
    global_data,     \* entries evaluated so far of the display of lines 895-903
    regional_data,   \* entries evaluated so far of the display of lines 908-951
    inventory_data,  \* self.inventory_data
    attempt,         \* make_api_call: the loop variable `attempt`
    history,         \* make_api_call: outcomes of func's invocations, in order
    slept,           \* make_api_call: the wait_time of every time.sleep, in order
    result,          \* make_api_call: the value returned by the last completed call
    invocations,     \* <<fn, arg>> -> number of invocations of the query function
    provider_log,    \* provider outcomes met by the current/last make_api_call
    delivered,       \* <<key, region, record>>: records a remote call returned for a cell
    exceptions,      \* number of non-ClientError exceptions raised so far
    bootstrap,       \* how describe_regions ended in get_aws_regions
    output_file,     \* what has been written to aws_inventory.json, write by write
    given,           \* the argument of the function a function-level specification applies
    produced         \* what that function produced

\* the variables generate_inventory and make_api_call leave alone
aux == <<bootstrap, output_file, given, produced>>

vars == <<regions, account, pc, region_idx, entry, global_data, regional_data,
          inventory_data, attempt, history, slept, result, invocations,
          provider_log, delivered, exceptions, aux>>

(***************************************************************************)
(* Bounds of the model.                                                    *)
(***************************************************************************)
MaxRegions == 1      \* longest region list
MaxResources == 1    \* remote cells of the account that hold a resource
MaxExceptions == 1   \* non-ClientError exceptions per run
MaxLen == 2          \* longest list an arbitrary callable returns (RetrySpec)

(***************************************************************************)
(* Values.                                                                 *)
(***************************************************************************)
\* Python's None and the two shapes a query function returns
None == [tag |-> "None", recs |-> <<>>]

ListOf(s) == [tag |-> "list", recs |-> s]

DictOf(s) == [tag |-> "dict", recs |-> s]

EmptyDict == <<>>

Pow2(n) == IF n = 0 THEN 1 ELSE IF n = 1 THEN 2 ELSE IF n = 2 THEN 4 ELSE 8

\* outcomes of one invocation of the callable handed to make_api_call
Returned(v) == [kind |-> "return", code |-> "", value |-> v]

RaisedClientError(c) == [kind |-> "ClientError", code |-> c, value |-> None]

RaisedException(n) == [kind |-> "Exception", code |-> n, value |-> None]

(***************************************************************************)
(* utils/aws_utils.py: make_api_call                                       *)
(***************************************************************************)
max_retries == 3

retry_delay == 1

ThrottlingCodes == {"RequestLimitExceeded", "Throttling"}

OtherCodes == {"AccessDenied", "UnsupportedOperation", "OptInRequired"}

ExceptionNames == {"EndpointConnectionError", "KeyError"}

ClientErrorCodes == ThrottlingCodes \cup OtherCodes

\* mutants of the loop body, each a plausible slip in lines 27-43
attempt_RetryOnce(att, o) ==
    IF o.kind = "return" THEN [do |-> "return", value |-> o.value, wait |-> 0]
    ELSE IF o.kind = "ClientError" /\ o.code \in ThrottlingCodes
              /\ att # max_retries - 2
         THEN [do |-> "sleep", value |-> None, wait |-> retry_delay * Pow2(att)]
         ELSE [do |-> "return", value |-> None, wait |-> 0]

attempt_OneMoreTry(att, o) ==
    IF o.kind = "return" THEN [do |-> "return", value |-> o.value, wait |-> 0]
    ELSE IF o.kind = "ClientError" /\ o.code \in ThrottlingCodes
              /\ att # max_retries
         THEN [do |-> "sleep", value |-> None, wait |-> retry_delay * Pow2(att)]
         ELSE [do |-> "return", value |-> None, wait |-> 0]

attempt_LinearBackoff(att, o) ==
    IF o.kind = "return" THEN [do |-> "return", value |-> o.value, wait |-> 0]
    ELSE IF o.kind = "ClientError" /\ o.code \in ThrottlingCodes
              /\ att # max_retries - 1
         THEN [do |-> "sleep", value |-> None, wait |-> retry_delay * (2 * att)]
         ELSE [do |-> "return", value |-> None, wait |-> 0]

attempt_RetryAnyClientError(att, o) ==
    IF o.kind = "return" THEN [do |-> "return", value |-> o.value, wait |-> 0]
    ELSE IF o.kind = "ClientError" /\ att # max_retries - 1
         THEN [do |-> "sleep", value |-> None, wait |-> retry_delay * Pow2(att)]
         ELSE [do |-> "return", value |-> None, wait |-> 0]

attempt_NeverGivesUp(att, o) ==
    IF o.kind = "return" THEN [do |-> "return", value |-> o.value, wait |-> 0]
    ELSE IF o.kind = "ClientError" /\ o.code \in ThrottlingCodes
         THEN [do |-> "sleep", value |-> None, wait |-> retry_delay * Pow2(att)]
         ELSE [do |-> "return", value |-> None, wait |-> 0]

attempt_RetryException(att, o) ==
    IF o.kind = "return" THEN [do |-> "return", value |-> o.value, wait |-> 0]
    ELSE IF (o.kind = "Exception" \/ o.code \in ThrottlingCodes)
              /\ att # max_retries - 1
         THEN [do |-> "sleep", value |-> None, wait |-> retry_delay * Pow2(att)]
         ELSE [do |-> "return", value |-> None, wait |-> 0]

\* one iteration of `for attempt in range(max_retries)`: what the body does
\* with the outcome o of func(*args, **kwargs)
make_api_call_attempt(att, o) ==
    IF o.kind = "return"
    THEN [do |-> "return", value |-> o.value, wait |-> 0]
    ELSE IF o.kind = "ClientError"
         THEN IF o.code \in ThrottlingCodes
              THEN IF att = max_retries - 1
                   THEN [do |-> "return", value |-> None, wait |-> 0]
                   ELSE [do |-> "sleep", value |-> None,
                         wait |-> retry_delay * Pow2(att)]
              ELSE [do |-> "return", value |-> None, wait |-> 0]
         ELSE [do |-> "return", value |-> None, wait |-> 0]

(***************************************************************************)
(* RetrySpec: make_api_call around an arbitrary callable.                  *)
(***************************************************************************)
Records == {"r1", "r2"}

RECURSIVE SeqsUpTo(_)
SeqsUpTo(n) ==
    IF n = 0 THEN {<<>>}
    ELSE SeqsUpTo(n - 1) \cup
         {Append(s, x) : s \in {t \in SeqsUpTo(n - 1) : Len(t) = n - 1}, x \in Records}

RetValues == {None} \cup {ListOf(s) : s \in SeqsUpTo(MaxLen)}

FuncOutcomes ==
    {Returned(v) : v \in RetValues}
        \cup {RaisedClientError(c) : c \in ClientErrorCodes}
        \cup {RaisedException(n) : n \in ExceptionNames}

RetryInit ==
    /\ regions = <<>>
    /\ account = {}
    /\ pc = "wrapper"
    /\ region_idx = 0
    /\ entry = 1
    /\ global_data = EmptyDict
    /\ regional_data = EmptyDict
    /\ inventory_data = EmptyDict
    /\ attempt = 0
    /\ history = <<>>
    /\ slept = <<>>
    /\ result = None
    /\ invocations = EmptyDict
    /\ provider_log = <<>>
    /\ delivered = {}
    /\ exceptions = 0
    /\ bootstrap = "ok"
    /\ output_file = <<>>
    /\ given = <<>>
    /\ produced = <<>>

\* one iteration of the loop of make_api_call, func's outcome chosen freely
WrapperAttempt ==
    /\ pc = "wrapper"
    /\ attempt < max_retries
    /\ \E o \in FuncOutcomes :
         LET r == make_api_call_attempt(attempt, o) IN
         /\ history' = Append(history, o)
         /\ IF r.do = "sleep"
            THEN /\ slept' = Append(slept, r.wait)
                 /\ attempt' = attempt + 1
                 /\ pc' = "wrapper"
                 /\ UNCHANGED result
            ELSE /\ result' = r.value
                 /\ pc' = "wrapper_returned"
                 /\ UNCHANGED <<slept, attempt>>
    /\ UNCHANGED <<regions, account, region_idx, entry, global_data, regional_data,
                   inventory_data, invocations, provider_log, delivered, exceptions,
                   aux>>

RetryNext == WrapperAttempt

RetrySpec == RetryInit /\ [][RetryNext]_vars

(***************************************************************************)
(* services/*.py: the query functions of the five service classes.         *)
(***************************************************************************)
\* the methods each service class defines
Methods(obj) ==
    CASE obj = "global_services" ->
           {"get_s3_buckets", "get_cloudfront_distributions", "get_waf_info",
            "get_route53_info", "get_iam_info"}
      [] obj = "network" ->
           {"get_vpcs_and_subnets", "get_internet_gateways", "get_nat_gateways",
            "get_transit_gateways", "get_vpc_endpoints", "get_route_tables",
            "get_network_interfaces", "get_elastic_ips", "get_elb_info"}
      [] obj = "database" ->
           {"get_ebs_volumes", "get_efs_filesystems", "get_rds_instances",
            "get_dynamodb_tables", "get_elasticache_clusters",
            "get_s3_bucket_policies"}
      [] obj = "compute" ->
           {"get_ec2_instances", "get_auto_scaling_groups", "get_launch_templates",
            "get_ecs_info", "get_eks_clusters", "get_lambda_functions",
            "get_ecr_repositories"}
      [] obj = "security" ->
           {"get_security_groups", "get_network_acls", "get_acm_certificates",
            "get_kms_keys", "get_secrets", "get_iam_policies"}

\* whether the attribute lookup self.<obj>.<fn> succeeds
HasMethod(obj, fn) == fn \in Methods(obj)

\* query functions whose client is created without region_name and for an
\* account-level service (IAM, S3, Route53, CloudFront): their data is global
GlobalScopeFns ==
    {"get_iam_info", "get_s3_buckets", "get_route53_info",
     "get_cloudfront_distributions", "get_s3_bucket_policies", "get_iam_policies"}

\* query functions whose client is created without region_name
NoRegionFns == GlobalScopeFns \cup {"get_waf_info"}

\* query functions that return a dict of lists rather than a list
DictFns == {"get_vpcs_and_subnets", "get_rds_instances", "get_iam_info", "get_waf_info"}

\* the value a query function builds from the records the provider returned
ResultOf(fn, recs) == IF fn \in DictFns THEN DictOf(recs) ELSE ListOf(recs)

\* the remote cell a call of fn with argument arg reads
RemoteCell(fn, arg) == IF fn \in NoRegionFns THEN <<fn, "global">> ELSE <<fn, arg>>

\* what the provider can answer to the operation behind a query function:
\* the records, a ClientError (throttling or not), a failure botocore does
\* not report as a ClientError
ProviderErrors == {"Throttling", "AccessDenied"}

ProviderExceptions == {"EndpointConnectionError"}

ProviderOutcomes == {"ok"} \cup ProviderErrors \cup ProviderExceptions

DomainQuery_Propagates(fn, po, recs) ==
    IF po \in ExceptionNames THEN RaisedException(po)
    ELSE IF po \in ClientErrorCodes THEN RaisedClientError(po)
    ELSE Returned(ResultOf(fn, recs))

\* one invocation of a query function, the provider answering po to its
\* operation and holding the records recs: every function has the shape
\*     try: <operation>; return <records>   except ClientError: return <empty>
\* so a ClientError never leaves it, any other exception does
DomainQuery(fn, po, recs) ==
    IF po \in ExceptionNames THEN RaisedException(po)
    ELSE IF po \in ClientErrorCodes THEN Returned(ResultOf(fn, <<>>))
    ELSE Returned(ResultOf(fn, recs))

(***************************************************************************)
(* aws_resource_inventory.py: generate_inventory                           *)
(***************************************************************************)
E(key, obj, fn, witharg) == [key |-> key, obj |-> obj, fn |-> fn, witharg |-> witharg]

\* the dict display of lines 895-903, after 'timestamp' and 'regions'
GlobalEntries == <<
    E("iam", "global_services", "get_iam_info", FALSE),
    E("s3_buckets", "global_services", "get_s3_buckets", FALSE),
    E("route53_zones", "global_services", "get_route53_info", FALSE),
    E("cloudfront", "global_services", "get_cloudfront_distributions", FALSE),
    E("waf", "global_services", "get_waf_info", FALSE) >>

\* the dict display of lines 908-951, in source order
RegionalEntries == <<
    E("vpc_info", "network", "get_vpcs_and_subnets", TRUE),
    E("internet_gateways", "network", "get_internet_gateways", TRUE),
    E("nat_gateways", "network", "get_nat_gateways", TRUE),
    E("transit_gateways", "network", "get_transit_gateways", TRUE),
    E("vpc_endpoints", "network", "get_vpc_endpoints", TRUE),
    E("route_tables", "network", "get_route_tables", TRUE),
    E("network_interfaces", "network", "get_network_interfaces", TRUE),
    E("elastic_ips", "network", "get_elastic_ips", TRUE),
    E("ebs_volumes", "database", "get_ebs_volumes", TRUE),
    E("efs_filesystems", "database", "get_efs_filesystems", TRUE),
    E("rds_info", "database", "get_rds_instances", TRUE),
    E("dynamodb_tables", "database", "get_dynamodb_tables", TRUE),
    E("elasticache_clusters", "database", "get_elasticache_clusters", TRUE),
    E("s3_bucket_policies", "database", "get_s3_bucket_policies", FALSE),
    E("ec2_instances", "compute", "get_ec2_instances", TRUE),
    E("auto_scaling_groups", "compute", "get_auto_scaling_groups", TRUE),
    E("launch_templates", "compute", "get_launch_templates", TRUE),
    E("ecs_clusters", "compute", "get_ecs_info", TRUE),
    E("eks_clusters", "compute", "get_eks_clusters", TRUE),
    E("lambda_functions", "compute", "get_lambda_functions", TRUE),
    E("ecr_repositories", "compute", "get_ecr_repositories", TRUE),
    E("security_groups", "security", "get_security_groups", TRUE),
    E("network_acls", "security", "get_network_acls", TRUE),
    E("acm_certificates", "security", "get_acm_certificates", TRUE),
    E("kms_keys", "security", "get_kms_keys", TRUE),
    E("secrets", "security", "get_secrets", TRUE),
    E("iam_policies", "security", "get_iam_policies", TRUE),
    E("rds_instances", "database", "get_rds_instances", TRUE),
    E("dynamodb_tables", "database", "get_dynamodb_tables", TRUE),
    E("vpcs", "network", "get_vpcs", TRUE),
    E("load_balancers", "network", "get_elb_info", TRUE) >>

AllRegions == <<"us-east-1", "eu-west-1", "ap-south-1">>

\* the region lists get_aws_regions can hand to the run: [] included
RegionLists == {SubSeq(AllRegions, 1, n) : n \in 0..MaxRegions}

RegionSet(rs) == {rs[i] : i \in 1..Len(rs)}

Init ==
    /\ regions \in RegionLists
    /\ account = {}
    /\ pc = "globals"
    /\ region_idx = 0
    /\ entry = 1
    /\ global_data = EmptyDict
    /\ regional_data = EmptyDict
    /\ inventory_data = EmptyDict
    /\ attempt = 0
    /\ history = <<>>
    /\ slept = <<>>
    /\ result = None
    /\ invocations = EmptyDict
    /\ provider_log = <<>>
    /\ delivered = {}
    /\ exceptions = 0
    /\ bootstrap = "ok"
    /\ output_file = <<>>
    /\ given = <<>>
    /\ produced = <<>>

CurrentEntries == IF pc = "globals" THEN GlobalEntries ELSE RegionalEntries

Count(c) == IF c \in DOMAIN invocations THEN invocations[c] ELSE 0

\* the remote cell was read before in this run
Touched(cell) == \E c \in DOMAIN invocations : RemoteCell(c[1], c[2]) = cell

\* dict[key] = value: a later entry with the same key replaces the earlier one
Put(d, key, value) == (key :> value) @@ d

\* {k: v for k, v in regional_data.items() if v is not None}
NotNone(d) == [k \in {x \in DOMAIN d : d[x] # None} |-> d[k]]

\* self.inventory_data['regions'][region] = {...}, lines 953-955
StoreRegion(inv, region, d) ==
    [inv EXCEPT !.regions = Put(inv.regions, region, NotNone(d))]

AssignGlobals_NotNone(d) ==
    [k \in {x \in DOMAIN d : d[x] # None} |-> d[k]]
        @@ [timestamp |-> "now", regions |-> EmptyDict]

\* self.inventory_data = {...}, lines 895-903
AssignGlobals(d) ==
    [timestamp |-> "now", regions |-> EmptyDict, iam |-> d["iam"],
     s3_buckets |-> d["s3_buckets"], route53_zones |-> d["route53_zones"],
     cloudfront |-> d["cloudfront"], waf |-> d["waf"]]

\* One iteration of make_api_call's loop for the entry under evaluation: the
\* query function is invoked, the provider answers po.  When make_api_call
\* returns, the value becomes the entry's value; after the last entry of a
\* display the finished dict is assigned (line 895) or filtered and stored
\* (lines 953-955).
ApiCallBy(answers, limit) ==
    /\ pc \in {"globals", "regional"}
    /\ entry <= Len(CurrentEntries)
    /\ attempt < max_retries
    /\ LET e == CurrentEntries[entry]
           arg == IF e.witharg THEN regions[region_idx] ELSE "none"
           cell == RemoteCell(e.fn, arg)
       IN
       /\ HasMethod(e.obj, e.fn)
       /\ \E po \in answers, holds \in BOOLEAN :
            LET recs == IF holds THEN <<cell>> ELSE <<>>
                o == DomainQuery(e.fn, po, recs)
                r == make_api_call_attempt(attempt, o)
                last == entry = Len(CurrentEntries)
            IN
            \* the account is fixed for the run: a cell read again holds what it held
            /\ IF Touched(cell) \/ cell \in account THEN holds = (cell \in account)
               ELSE holds => Cardinality(account) < limit
            /\ account' = IF holds THEN account \cup {cell} ELSE account
            /\ po \in ExceptionNames => exceptions < MaxExceptions
            /\ exceptions' = IF po \in ExceptionNames THEN exceptions + 1 ELSE exceptions
            /\ invocations' = Put(invocations, <<e.fn, arg>>, Count(<<e.fn, arg>>) + 1)
            /\ history' = IF attempt = 0 THEN <<o>> ELSE Append(history, o)
            /\ provider_log' = IF attempt = 0 THEN <<po>> ELSE Append(provider_log, po)
            /\ delivered' = IF po = "ok" /\ pc = "regional"
                            THEN delivered \cup
                                 {<<e.key, regions[region_idx], recs[i]>> :
                                      i \in 1..Len(recs)}
                            ELSE delivered
            /\ IF r.do = "sleep"
               THEN /\ slept' = IF attempt = 0 THEN <<r.wait>> ELSE Append(slept, r.wait)
                    /\ attempt' = attempt + 1
                    /\ UNCHANGED <<pc, entry, result, global_data, regional_data,
                                   inventory_data>>
               ELSE /\ slept' = IF attempt = 0 THEN <<>> ELSE slept
                    /\ attempt' = 0
                    /\ result' = r.value
                    /\ entry' = IF last THEN 1 ELSE entry + 1
                    /\ pc' = IF last THEN "loop" ELSE pc
                    /\ IF pc = "globals"
                       THEN /\ global_data' = Put(global_data, e.key, r.value)
                            /\ inventory_data' =
                                 IF last THEN AssignGlobals(global_data')
                                 ELSE inventory_data
                            /\ UNCHANGED regional_data
                       ELSE /\ regional_data' = Put(regional_data, e.key, r.value)
                            /\ inventory_data' =
                                 IF last
                                 THEN StoreRegion(inventory_data, regions[region_idx],
                                                  regional_data')
                                 ELSE inventory_data
                            /\ UNCHANGED global_data
    /\ UNCHANGED <<regions, region_idx, aux>>

\* the step against an account of at most MaxResources resources
ApiCallOf(answers) == ApiCallBy(answers, MaxResources)

ApiCall == ApiCallOf(ProviderOutcomes)

\* the same step when the provider never throttles
QuietApiCall == ApiCallOf(ProviderOutcomes \ ThrottlingCodes)

\* the attribute lookup self.<obj>.<fn> of the entry fails: the AttributeError
\* is raised in generate_inventory, outside make_api_call, and nothing catches it
AttributeError ==
    /\ pc \in {"globals", "regional"}
    /\ entry <= Len(CurrentEntries)
    /\ ~HasMethod(CurrentEntries[entry].obj, CurrentEntries[entry].fn)
    /\ pc' = "raised"
    /\ UNCHANGED <<regions, account, region_idx, entry, global_data, regional_data,
                   inventory_data, attempt, history, slept, result, invocations,
                   provider_log, delivered, exceptions, aux>>

NextRegion_StoresEmptyEntry ==
    /\ pc = "loop"
    /\ region_idx < Len(regions)
    /\ region_idx' = region_idx + 1
    /\ regional_data' = EmptyDict
    /\ entry' = 1
    /\ pc' = "regional"
    /\ inventory_data' = StoreRegion(inventory_data, regions[region_idx'], EmptyDict)
    /\ UNCHANGED <<regions, account, global_data, attempt, history,
                   slept, result, invocations, provider_log, delivered, exceptions,
                   aux>>

\* `for region in self.regions`: the next region, line 905
NextRegion ==
    /\ pc = "loop"
    /\ region_idx < Len(regions)
    /\ region_idx' = region_idx + 1
    /\ regional_data' = EmptyDict
    /\ entry' = 1
    /\ pc' = "regional"
    /\ UNCHANGED <<regions, account, global_data, inventory_data, attempt, history,
                   slept, result, invocations, provider_log, delivered, exceptions,
                   aux>>

\* the loop is exhausted: return self.inventory_data, line 957
Return ==
    /\ pc = "loop"
    /\ region_idx = Len(regions)
    /\ pc' = "returned"
    /\ UNCHANGED <<regions, account, region_idx, entry, global_data, regional_data,
                   inventory_data, attempt, history, slept, result, invocations,
                   provider_log, delivered, exceptions, aux>>

Next == ApiCall \/ AttributeError \/ NextRegion \/ Return

Spec == Init /\ [][Next]_vars

\* runs in which the provider never answers with a throttling error
NoThrottlingNext == QuietApiCall \/ AttributeError \/ NextRegion \/ Return

NoThrottlingSpec == Init /\ [][NoThrottlingNext]_vars

(***************************************************************************)
(* Properties of make_api_call (RetrySpec).                                *)
(***************************************************************************)
IsThrottling(o) == o.kind = "ClientError" /\ o.code \in ThrottlingCodes

AllThrottling(h) == \A i \in 1..Len(h) : IsThrottling(h[i])

Front(h) == SubSeq(h, 1, Len(h) - 1)

RECURSIVE SumSeq(_)
SumSeq(q) == IF q = <<>> THEN 0 ELSE q[1] + SumSeq(Tail(q))

WrapperReturned == pc = "wrapper_returned"

\* C2: when func raises a throttling ClientError on its first N invocations,
\* N < 3, and succeeds on invocation N+1, make_api_call has not given up
\* before that invocation, returns exactly the value of that invocation, and
\* invokes func no further: N+1 invocations in all.
C2_EventualSuccess ==
    /\ (AllThrottling(history) /\ Len(history) < 3) => pc = "wrapper"
    /\ (/\ Len(history) >= 1
        /\ Len(history) - 1 < 3
        /\ AllThrottling(Front(history))
        /\ history[Len(history)].kind = "return")
           => /\ WrapperReturned
              /\ result = history[Len(history)].value
              /\ attempt = Len(history) - 1

C2_Witness ==
    /\ WrapperReturned
    /\ Len(history) = 3
    /\ AllThrottling(Front(history))
    /\ history[3] = Returned(ListOf(<<"r1", "r2">>))
    /\ result = ListOf(<<"r1", "r2">>)

\* C3: when func raises a throttling ClientError on every invocation,
\* make_api_call returns None after exactly 3 invocations: it has not returned
\* after fewer, and it has returned, with None, once there are 3.
C3_Exhaustion ==
    AllThrottling(history) =>
        /\ Len(history) <= 3
        /\ WrapperReturned <=> Len(history) = 3
        /\ WrapperReturned => result = None

C3_Witness ==
    /\ WrapperReturned
    /\ Len(history) = 3
    /\ AllThrottling(history)
    /\ result = None

\* C4: when func always raises throttling errors, the wait after failed
\* attempt k (k = 0, 1, ...) that is followed by another attempt is
\* retry_delay * 2^k with retry_delay = 1, each wait the double of the one
\* before, no sleep follows the final attempt, and the waits of a call that
\* ran out of attempts sum up to 1 + 2 = 3.
C4_BackoffSchedule ==
    AllThrottling(history) =>
        /\ \A k \in 1..Len(slept) : slept[k] = 1 * Pow2(k - 1)
        /\ \A k \in 2..Len(slept) : slept[k] = 2 * slept[k - 1]
        /\ Len(slept) = IF WrapperReturned THEN Len(history) - 1 ELSE Len(history)
        /\ WrapperReturned => SumSeq(slept) = 3

C4_Witness ==
    /\ WrapperReturned
    /\ AllThrottling(history)
    /\ Len(history) = 3
    /\ slept = <<1, 2>>

\* C5: when func raises a ClientError whose code is not a throttling code,
\* make_api_call returns None after that one invocation, with no sleep and
\* no retry.
C5_NonTransient ==
    (/\ Len(history) >= 1
     /\ history[1].kind = "ClientError"
     /\ history[1].code \notin ThrottlingCodes)
        => /\ WrapperReturned
           /\ result = None
           /\ Len(history) = 1
           /\ slept = <<>>

C5_Witness ==
    /\ WrapperReturned
    /\ history = <<RaisedClientError("AccessDenied")>>
    /\ result = None
    /\ slept = <<>>

(***************************************************************************)
(* Properties of generate_inventory (Spec, NoThrottlingSpec).              *)
(***************************************************************************)
Terminated == pc \in {"returned", "raised"}

\* self.inventory_data has been assigned the dict of lines 895-903
Assigned == "regions" \in DOMAIN inventory_data

\* the region entries of the run: those stored under 'regions' and the one
\* under construction, which line 953 stores
RegionEntries ==
    {regional_data}
        \cup (IF Assigned
              THEN {inventory_data.regions[r] : r \in DOMAIN inventory_data.regions}
              ELSE {})

\* the number of positions of q that hold x
Occurrences(q, x) == Cardinality({i \in 1..Len(q) : q[i] = x})

\* C1: for every region list and every combination of outcomes of the
\* queries, generate_inventory does not raise, and the snapshot it returns
\* has an entry under 'regions' for every region of the list.
C1_PartialFailureNeverAborts ==
    /\ pc # "raised"
    /\ pc = "returned" =>
           \A r \in RegionSet(regions) : r \in DOMAIN inventory_data.regions

\* C6: a regional query whose provider operation answered with a throttling
\* error is invoked again, after a sleep, before make_api_call returns: no
\* completed call has met a throttling answer on a single invocation.
C6_ThrottledCellRetried ==
    (/\ pc = "regional"
     /\ entry > 1
     /\ attempt = 0
     /\ provider_log[1] \in ThrottlingCodes)
        => /\ Len(provider_log) >= 2
           /\ slept # <<>>

\* C7: the results of the global-scope domains are stored at the top level
\* of the snapshot, a run over any region list ends by returning that
\* snapshot, and no region entry has a key computed by a query function of a
\* global-scope service (S3 bucket policies, IAM policies).
C7_GlobalOnce ==
    /\ pc \in {"loop", "regional", "returned", "raised"} =>
           {"iam", "s3_buckets", "route53_zones", "cloudfront"}
               \subseteq DOMAIN inventory_data
    /\ Terminated => pc = "returned"
    /\ \A d \in RegionEntries : \A i \in 1..Len(RegionalEntries) :
           RegionalEntries[i].fn \in GlobalScopeFns
               => RegionalEntries[i].key \notin DOMAIN d

\* the number of invocations of fn in the run, whatever the argument
TotalInvocations(fn) ==
    LET args == {c[2] : c \in {x \in DOMAIN invocations : x[1] = fn}}
        RECURSIVE Total(_)
        Total(A) == IF A = {} THEN 0
                    ELSE LET a == CHOOSE x \in A : TRUE
                         IN invocations[<<fn, a>>] + Total(A \ {a})
    IN Total(args)

\* C8: in a finished run, every query function of a global-scope service
\* (IAM, S3, Route53, CloudFront) has been invoked exactly once, whatever the
\* number of regions.
C8_GlobalScannedOnce ==
    Terminated => \A fn \in GlobalScopeFns : TotalInvocations(fn) = 1

\* the query functions that take the region and read that region's data
RegionalFns ==
    {RegionalEntries[i].fn : i \in 1..Len(RegionalEntries)} \ NoRegionFns

\* C9: in a run without throttling, no regional query function is invoked
\* twice for the same region, and each one has been invoked once for every
\* region of the list when the run has finished.
C9_RegionalOncePerRegion ==
    /\ \A fn \in RegionalFns : \A r \in RegionSet(regions) : Count(<<fn, r>>) <= 1
    /\ Terminated =>
           \A fn \in RegionalFns : \A r \in RegionSet(regions) : Count(<<fn, r>>) = 1

\* C10: every record a remote call returned for (D, R) is, when the run has
\* finished, in the snapshot exactly once under regions[R] and the key of D,
\* and no record appears under two different keys of one region entry.
C10_NoDuplicationNoLoss ==
    /\ Terminated =>
           \A d \in delivered :
               /\ d[2] \in DOMAIN inventory_data.regions
               /\ d[1] \in DOMAIN inventory_data.regions[d[2]]
               /\ Occurrences(inventory_data.regions[d[2]][d[1]].recs, d[3]) = 1
    /\ \A e \in RegionEntries : \A k1, k2 \in DOMAIN e :
           k1 # k2 =>
               \A i \in 1..Len(e[k1].recs) : Occurrences(e[k2].recs, e[k1].recs[i]) = 0

(***************************************************************************)
(* The end-to-end scenario: a fake provider with two regions, one running  *)
(* EC2 instance in the first, none in the second, and one S3 bucket.       *)
(***************************************************************************)
ScenarioRegions == <<"us-east-1", "eu-west-1">>

ScenarioBucket == <<"get_s3_buckets", "global">>

ScenarioInstance == <<"get_ec2_instances", "us-east-1">>

\* the fake provider holds the bucket and the instance and nothing else; it
\* lists its regions, or the first of them, or none
FakeProviderInit ==
    /\ regions \in {SubSeq(ScenarioRegions, 1, n) : n \in 0..Len(ScenarioRegions)}
    /\ account = {ScenarioBucket, ScenarioInstance}
    /\ pc = "globals"
    /\ region_idx = 0
    /\ entry = 1
    /\ global_data = EmptyDict
    /\ regional_data = EmptyDict
    /\ inventory_data = EmptyDict
    /\ attempt = 0
    /\ history = <<>>
    /\ slept = <<>>
    /\ result = None
    /\ invocations = EmptyDict
    /\ provider_log = <<>>
    /\ delivered = {}
    /\ exceptions = 0
    /\ bootstrap = "ok"
    /\ output_file = <<>>
    /\ given = <<>>
    /\ produced = <<>>

\* the step against a provider whose account is known from the start: no
\* resource beyond those it holds then
FixedApiCall == ApiCallBy(ProviderOutcomes, 0)

FakeProviderNext == FixedApiCall \/ AttributeError \/ NextRegion \/ Return

FakeProviderSpec == FakeProviderInit /\ [][FakeProviderNext]_vars

(***************************************************************************)
(* Runs against an account known from the start: empty, or with a          *)
(* resource in some cells of each sort.                                    *)
(***************************************************************************)
\* a bucket (global list), a VPC (regional dict of lists), an EC2 instance
\* (regional list) and a customer managed IAM policy (global-scope function
\* of the regional display)
StockedCells ==
    {ScenarioBucket, ScenarioInstance,
     <<"get_vpcs_and_subnets", AllRegions[1]>>, <<"get_iam_policies", "global">>}

StockedAccounts == {{}, StockedCells}

StockedInit ==
    /\ regions \in RegionLists
    /\ account \in StockedAccounts
    /\ pc = "globals"
    /\ region_idx = 0
    /\ entry = 1
    /\ global_data = EmptyDict
    /\ regional_data = EmptyDict
    /\ inventory_data = EmptyDict
    /\ attempt = 0
    /\ history = <<>>
    /\ slept = <<>>
    /\ result = None
    /\ invocations = EmptyDict
    /\ provider_log = <<>>
    /\ delivered = {}
    /\ exceptions = 0
    /\ bootstrap = "ok"
    /\ output_file = <<>>
    /\ given = <<>>
    /\ produced = <<>>

StockedNext == FixedApiCall \/ AttributeError \/ NextRegion \/ Return

StockedSpec == StockedInit /\ [][StockedNext]_vars

\* the provider has delivered the bucket and the instance to the run
ScenarioDelivered ==
    /\ Assigned
    /\ inventory_data.s3_buckets = ListOf(<<ScenarioBucket>>)
    /\ <<"ec2_instances", ScenarioRegions[1], ScenarioInstance>> \in delivered

\* C11: in the scenario (both regions listed, the bucket and the instance
\* delivered by the provider) a finished run has returned a snapshot that
\* shows the bucket once under 's3_buckets', the instance once under
\* regions[A]['ec2_instances'], and under regions[B] no 'ec2_instances' key
\* or an empty list.
C11_EndToEnd ==
    (regions = ScenarioRegions /\ ScenarioDelivered /\ Terminated) =>
        /\ pc = "returned"
        /\ Occurrences(inventory_data.s3_buckets.recs, ScenarioBucket) = 1
        /\ ScenarioRegions[1] \in DOMAIN inventory_data.regions
        /\ "ec2_instances" \in DOMAIN inventory_data.regions[ScenarioRegions[1]]
        /\ inventory_data.regions[ScenarioRegions[1]]["ec2_instances"]
               = ListOf(<<ScenarioInstance>>)
        /\ ScenarioRegions[2] \in DOMAIN inventory_data.regions
        /\ LET b == inventory_data.regions[ScenarioRegions[2]]
           IN "ec2_instances" \in DOMAIN b => b["ec2_instances"].recs = <<>>

(***************************************************************************)
(* The records the query functions build, and Python and JSON values.      *)
(***************************************************************************)
\* the keys of the dict a query function builds for one resource; for a
\* function that returns a dict of lists, the resource of the first list
Fields(fn) ==
    CASE fn = "get_iam_info" -> {"UserName", "UserId", "Arn", "CreateDate"}
      [] fn = "get_s3_buckets" -> {"Name", "CreationDate"}
      [] fn = "get_route53_info" -> {"Id", "Name", "Private", "RecordCount"}
      [] fn = "get_cloudfront_distributions" ->
           {"Id", "DomainName", "Status", "Enabled", "Origins"}
      [] fn = "get_waf_info" -> {"Name", "Id", "ARN", "Scope"}
      [] fn = "get_vpcs_and_subnets" -> {"VpcId", "CidrBlock", "State", "IsDefault", "Tags"}
      [] fn = "get_internet_gateways" -> {"InternetGatewayId", "Attachments", "Tags"}
      [] fn = "get_nat_gateways" -> {"NatGatewayId", "SubnetId", "VpcId", "State", "Tags"}
      [] fn = "get_transit_gateways" ->
           {"TransitGatewayId", "State", "OwnerId", "Description", "Tags"}
      [] fn = "get_vpc_endpoints" ->
           {"VpcEndpointId", "VpcId", "ServiceName", "State", "Type", "Tags"}
      [] fn = "get_route_tables" ->
           {"RouteTableId", "VpcId", "Routes", "Associations", "Tags"}
      [] fn = "get_network_interfaces" ->
           {"NetworkInterfaceId", "SubnetId", "VpcId", "PrivateIpAddress", "Status",
            "Tags"}
      [] fn = "get_elastic_ips" ->
           {"PublicIp", "AllocationId", "InstanceId", "NetworkInterfaceId", "Tags"}
      [] fn = "get_elb_info" ->
           {"LoadBalancerName", "DNSName", "Type", "Scheme", "State", "VpcId"}
      [] fn = "get_ebs_volumes" ->
           {"VolumeId", "Size", "VolumeType", "State", "Encrypted", "IOPS",
            "AvailabilityZone", "Attachments", "Tags"}
      [] fn = "get_efs_filesystems" ->
           {"FileSystemId", "Name", "Size", "LifeCycleState", "PerformanceMode",
            "Encrypted", "ThroughputMode", "MountTargets"}
      [] fn = "get_rds_instances" ->
           {"DBInstanceIdentifier", "Engine", "EngineVersion", "DBInstanceClass",
            "Status", "Endpoint", "MultiAZ", "StorageType", "AllocatedStorage"}
      [] fn = "get_dynamodb_tables" ->
           {"TableName", "Status", "ItemCount", "SizeBytes", "ProvisionedThroughput",
            "BillingMode", "GlobalSecondaryIndexes", "LocalSecondaryIndexes"}
      [] fn = "get_elasticache_clusters" ->
           {"CacheClusterId", "Engine", "EngineVersion", "CacheNodeType",
            "NumCacheNodes", "Status", "PreferredAvailabilityZone",
            "CacheSubnetGroup", "AutoMinorVersionUpgrade"}
      [] fn = "get_s3_bucket_policies" -> {"BucketName", "PolicyExists", "Policy"}
      [] fn = "get_ec2_instances" ->
           {"InstanceId", "Name", "InstanceType", "State", "LaunchTime", "Platform",
            "PrivateIpAddress", "PublicIpAddress", "VpcId", "SubnetId", "Tags"}
      [] fn = "get_auto_scaling_groups" ->
           {"AutoScalingGroupName", "DesiredCapacity", "MinSize", "MaxSize",
            "InstanceCount", "AvailabilityZones", "HealthCheckType",
            "LaunchTemplate", "Status"}
      [] fn = "get_launch_templates" ->
           {"LaunchTemplateName", "LaunchTemplateId", "DefaultVersion",
            "LatestVersion", "CreateTime", "InstanceType", "ImageId"}
      [] fn = "get_ecs_info" ->
           {"ClusterName", "ClusterArn", "Status", "ActiveServices", "RunningTasks",
            "PendingTasks", "ContainerInstances", "Services"}
      [] fn = "get_eks_clusters" ->
           {"Name", "Status", "Version", "Endpoint", "PlatformVersion", "VpcId",
            "SecurityGroups", "Subnets"}
      [] fn = "get_lambda_functions" ->
           {"FunctionName", "Runtime", "Memory", "Timeout", "LastModified",
            "Handler", "Role", "Environment", "VpcConfig"}
      [] fn = "get_ecr_repositories" ->
           {"RepositoryName", "RepositoryUri", "CreatedAt", "ImageCount",
            "ImageTagMutability", "EncryptionType"}
      [] fn = "get_security_groups" ->
           {"GroupId", "GroupName", "Description", "VpcId", "InboundRules",
            "OutboundRules"}
      [] fn = "get_network_acls" ->
           {"NetworkAclId", "VpcId", "IsDefault", "Entries", "Associations"}
      [] fn = "get_acm_certificates" ->
           {"CertificateArn", "DomainName", "Status", "Type", "InUseBy", "ExpiresOn"}
      [] fn = "get_kms_keys" ->
           {"KeyId", "Arn", "State", "Description", "Enabled", "KeyManager", "Aliases"}
      [] fn = "get_secrets" ->
           {"Name", "ARN", "Description", "LastChangedDate", "LastAccessedDate", "Tags"}
      [] fn = "get_iam_policies" ->
           {"PolicyName", "PolicyId", "Arn", "Description", "VersionCount",
            "AttachmentCount"}

\* the fields a query function fills with <datetime>.isoformat()
IsoformatFields ==
    {"LaunchTime", "CreateTime", "CreatedAt", "CreationDate", "CreateDate",
     "LastChangedDate", "LastAccessedDate"}

\* the field filled with the provider's datetime as it is:
\* 'ExpiresOn': details.get('NotAfter', 'N/A')
RawDatetimeFields == {"ExpiresOn"}

\* the keys of the dict a DictFns function returns, in source order
SubLists(fn) ==
    CASE fn = "get_iam_info" -> <<"users", "roles", "groups">>
      [] fn = "get_waf_info" -> <<"WebACLs">>
      [] fn = "get_vpcs_and_subnets" -> <<"vpcs", "subnets">>
      [] fn = "get_rds_instances" -> <<"instances", "clusters">>

\* Python values
PyNone == [t |-> "NoneType"]

PyStr(s) == [t |-> "str", s |-> s]

\* a datetime: offset is "" when it is naive, "+00:00" when it is in UTC
PyDatetime(date, time, offset) ==
    [t |-> "datetime", date |-> date, time |-> time, offset |-> offset]

PyList(items) == [t |-> "list", items |-> items]

PyDict(map) == [t |-> "dict", map |-> map]

\* datetime.isoformat() and str(datetime)
isoformat(dt) == dt.date \o "T" \o dt.time \o dt.offset

str(dt) == dt.date \o " " \o dt.time \o dt.offset

\* the date-times the provider reports: boto3 hands them out in UTC
Datetimes ==
    {PyDatetime("2025-01-31", "23:59:59", "+00:00"),
     PyDatetime("2026-06-01", "00:00:00", "+00:00")}

\* the values datetime.now() can return: naive, with microseconds
LocalTimes ==
    {PyDatetime("2026-11-02", "09:15:00.250000", ""),
     PyDatetime("2026-12-31", "23:59:59.999999", "")}

RecordOf_Synthetic(cell, dt) ==
    PyDict(("Region" :> PyStr(cell[2])) @@ ("Service" :> PyStr(cell[1]))
           @@ [f \in Fields(cell[1]) |->
                  IF f \in RawDatetimeFields THEN dt
                  ELSE IF f \in IsoformatFields THEN PyStr(isoformat(dt))
                  ELSE PyStr(cell[1] \o ":" \o cell[2] \o ":" \o f)])

\* the dict the query function builds for the resource of a cell, the
\* provider reporting the date-time dt for it
RecordOf(cell, dt) ==
    PyDict([f \in Fields(cell[1]) |->
               IF f \in RawDatetimeFields THEN dt
               ELSE IF f \in IsoformatFields THEN PyStr(isoformat(dt))
               ELSE PyStr(cell[1] \o ":" \o cell[2] \o ":" \o f)])

RecordsOf(recs, dt) == PyList([i \in 1..Len(recs) |-> RecordOf(recs[i], dt)])

\* the Python value make_api_call returned for the query function fn
PyValue(fn, v, dt) ==
    IF v = None THEN PyNone
    ELSE IF v.tag = "list" THEN RecordsOf(v.recs, dt)
    ELSE PyDict([k \in {SubLists(fn)[i] : i \in 1..Len(SubLists(fn))} |->
                    IF k = SubLists(fn)[1] THEN RecordsOf(v.recs, dt)
                    ELSE PyList(<<>>)])

\* JSON texts
JNull == [j |-> "null"]

JString(s) == [j |-> "string", s |-> s]

JArray(items) == [j |-> "array", items |-> items]

JObject(map) == [j |-> "object", map |-> map]

\* json.dump(v, f, indent=2, default=str): a value the encoder does not know,
\* a datetime here, is replaced by default(value) = str(value)
RECURSIVE json_dump(_)
json_dump(v) ==
    CASE v.t = "NoneType" -> JNull
      [] v.t = "str" -> JString(v.s)
      [] v.t = "datetime" -> JString(str(v))
      [] v.t = "list" -> JArray([i \in DOMAIN v.items |-> json_dump(v.items[i])])
      [] v.t = "dict" -> JObject([k \in DOMAIN v.map |-> json_dump(v.map[k])])

\* json.load(f)
RECURSIVE json_load(_)
json_load(x) ==
    CASE x.j = "null" -> PyNone
      [] x.j = "string" -> PyStr(x.s)
      [] x.j = "array" -> PyList([i \in DOMAIN x.items |-> json_load(x.items[i])])
      [] x.j = "object" -> PyDict([k \in DOMAIN x.map |-> json_load(x.map[k])])

\* the query function behind a key of a dict display
FnOf(entries, key) ==
    entries[CHOOSE i \in 1..Len(entries) : entries[i].key = key].fn

\* the Python dict generate_inventory returns: now is what datetime.now()
\* returned at line 892, dt the date-time the provider reports
PySnapshot(inv, now, dt) ==
    PyDict([k \in DOMAIN inv |->
        IF k = "timestamp" THEN PyStr(isoformat(now))
        ELSE IF k = "regions"
        THEN PyDict([r \in DOMAIN inv.regions |->
                 PyDict([key \in DOMAIN inv.regions[r] |->
                     PyValue(FnOf(RegionalEntries, key), inv.regions[r][key], dt)])])
        ELSE PyValue(FnOf(GlobalEntries, k), inv[k], dt)])

(***************************************************************************)
(* aws_utils.py: get_aws_regions; aws_resource_inventory.py: __init__,     *)
(* save_inventory and main.                                                *)
(***************************************************************************)
get_aws_regions_Propagates(answer, names) ==
    IF answer = "ok" THEN Returned(names)
    ELSE IF answer \in ClientErrorCodes THEN RaisedClientError(answer)
    ELSE RaisedException(answer)

\* get_aws_regions: the provider answers describe_regions with the region
\* names, a ClientError (logged, [] returned) or another exception
get_aws_regions(answer, names) ==
    IF answer = "ok" THEN Returned(names)
    ELSE IF answer \in ClientErrorCodes THEN Returned(<<>>)
    ELSE RaisedException(answer)

\* what save_inventory writes to the file
save_inventory(inventory, now, dt) == json_dump(PySnapshot(inventory, now, dt))

MainInit ==
    /\ regions = <<>>
    /\ account \in StockedAccounts
    /\ pc = "main"
    /\ region_idx = 0
    /\ entry = 1
    /\ global_data = EmptyDict
    /\ regional_data = EmptyDict
    /\ inventory_data = EmptyDict
    /\ attempt = 0
    /\ history = <<>>
    /\ slept = <<>>
    /\ result = None
    /\ invocations = EmptyDict
    /\ provider_log = <<>>
    /\ delivered = {}
    /\ exceptions = 0
    /\ bootstrap = "pending"
    /\ output_file = <<>>
    /\ given = <<>>
    /\ produced = <<>>

\* inventory = AWSResourceInventory(), line 968: __init__ calls
\* get_aws_regions; an exception that leaves it ends main
Construct ==
    /\ pc = "main"
    /\ \E answer \in ProviderOutcomes, names \in RegionLists :
         LET o == get_aws_regions(answer, names)
         IN /\ bootstrap' = answer
            /\ IF o.kind = "return"
               THEN regions' = o.value /\ pc' = "globals"
               ELSE pc' = "raised" /\ UNCHANGED regions
    /\ UNCHANGED <<account, region_idx, entry, global_data, regional_data,
                   inventory_data, attempt, history, slept, result, invocations,
                   provider_log, delivered, exceptions, output_file, given, produced>>

main_reaches_save_WhileScanning == pc \in {"returned", "loop"}

\* main reaches line 970 when generate_inventory has returned
main_reaches_save == pc = "returned"

\* inventory.save_inventory(resources), line 970
Save ==
    /\ main_reaches_save
    /\ \E now \in LocalTimes, dt \in Datetimes :
         output_file' = Append(output_file, save_inventory(inventory_data, now, dt))
    /\ pc' = "saved"
    /\ UNCHANGED <<regions, account, region_idx, entry, global_data, regional_data,
                   inventory_data, attempt, history, slept, result, invocations,
                   provider_log, delivered, exceptions, bootstrap, given, produced>>

MainNext == Construct \/ FixedApiCall \/ AttributeError \/ NextRegion \/ Return \/ Save

MainSpec == MainInit /\ [][MainNext]_vars

\* the query functions of the global display
GlobalFns == {GlobalEntries[i].fn : i \in 1..Len(GlobalEntries)}

BootstrapFailed == bootstrap \in ProviderErrors \cup ProviderExceptions

\* C12: when describe_regions has failed in get_aws_regions, with whatever
\* error, the run has aborted and no query function, global or regional, is
\* ever invoked.
C12_BootstrapFatal ==
    BootstrapFailed => pc = "raised" /\ invocations = EmptyDict

\* C12, amended: a failure of describe_regions that is not a ClientError
\* aborts the run before any query function is invoked and nothing is
\* written; after a ClientError get_aws_regions returns [] and the run goes
\* on with no region: it does not abort, only the five global query
\* functions are invoked, all five by the end of the global scan.
C12_BootstrapFatalUnlessClientError ==
    /\ bootstrap \in ProviderExceptions =>
           pc = "raised" /\ invocations = EmptyDict /\ output_file = <<>>
    /\ bootstrap \in ProviderErrors =>
           /\ regions = <<>>
           /\ pc # "raised"
           /\ \A c \in DOMAIN invocations : c[1] \in GlobalFns
           /\ pc \in {"loop", "returned", "saved"} =>
                  \A fn \in GlobalFns : Count(<<fn, "none">>) >= 1

C12_Witness ==
    /\ bootstrap = "AccessDenied"
    /\ pc = "saved"
    /\ \A fn \in GlobalFns : Count(<<fn, "none">>) >= 1
    /\ Len(output_file) = 1

(***************************************************************************)
(* Properties of the snapshot (StockedSpec).                               *)
(***************************************************************************)
GlobalKeys == {GlobalEntries[i].key : i \in 1..Len(GlobalEntries)}

\* the result holds at least one record
HasRecords(v) == v # None /\ v.recs # <<>>

JustReturned ==
    /\ attempt = 0
    /\ \/ pc \in {"globals", "regional"} /\ entry > 1
       \/ pc = "loop" /\ region_idx = 0

\* the entry that call evaluated
LastEntry ==
    IF pc = "loop" THEN GlobalEntries[Len(GlobalEntries)] ELSE CurrentEntries[entry - 1]

\* the value stored for it in the dict under construction
StoredValue ==
    IF pc = "regional" THEN regional_data[LastEntry.key] ELSE global_data[LastEntry.key]

\* the provider's answer to the last invocation of that call
LastAnswer == provider_log[Len(provider_log)]

runvars == <<regions, account, region_idx, entry, global_data, regional_data,
             inventory_data, attempt, history, slept, result, invocations,
             provider_log, delivered, exceptions, bootstrap>>

\* no run in progress
Idle ==
    /\ regions = <<>>
    /\ account = {}
    /\ region_idx = 0
    /\ entry = 1
    /\ global_data = EmptyDict
    /\ regional_data = EmptyDict
    /\ inventory_data = EmptyDict
    /\ attempt = 0
    /\ history = <<>>
    /\ slept = <<>>
    /\ result = None
    /\ invocations = EmptyDict
    /\ provider_log = <<>>
    /\ delivered = {}
    /\ exceptions = 0
    /\ bootstrap = "ok"

\* the injective sequences of at most n elements of S
RECURSIVE DistinctSeqs(_, _)
DistinctSeqs(S, n) ==
    IF n = 0 THEN {<<>>}
    ELSE LET shorter == DistinctSeqs(S, n - 1)
         IN shorter \cup
            {Append(q, x) : <<q, x>> \in
                {p \in shorter \X S : \A i \in 1..Len(p[1]) : p[1][i] # p[2]}}

(***************************************************************************)
(* services/network.py: get_vpcs_and_subnets                               *)
(***************************************************************************)
MaxVpcs == 2

VpcIds == {"vpc-0a", "vpc-0b", "vpc-0c"}

\* a VPC as describe_vpcs reports it (the fields the code reads, and one it
\* does not)
ProviderVpc(id, isdefault) ==
    [VpcId |-> id, CidrBlock |-> "10.0.0.0/16", State |-> "available",
     IsDefault |-> isdefault, OwnerId |-> "111122223333"]

ProviderSubnet(id, vpc) ==
    [SubnetId |-> id, VpcId |-> vpc, CidrBlock |-> "10.0.1.0/24",
     AvailabilityZone |-> "us-east-1a", State |-> "available"]

\* the answers of the provider to describe_vpcs and describe_subnets: VPC
\* identifiers are unique in a region
VpcLists ==
    UNION {{[i \in 1..Len(ids) |-> ProviderVpc(ids[i], flags[i])] :
                flags \in [1..Len(ids) -> BOOLEAN]} :
           ids \in DistinctSeqs(VpcIds, MaxVpcs)}

SubnetLists(vpcs) ==
    IF vpcs = <<>> THEN {<<>>}
    ELSE {<<>>, <<ProviderSubnet("subnet-01", vpcs[1].VpcId)>>}

VpcAnswers ==
    UNION {{[answer |-> a, Vpcs |-> v, Subnets |-> s] : s \in SubnetLists(v)} :
           <<a, v>> \in ProviderOutcomes \X VpcLists}

get_vpcs_and_subnets_NonDefault(p) ==
    IF p.answer \in ExceptionNames THEN RaisedException(p.answer)
    ELSE IF p.answer \in ClientErrorCodes
    THEN Returned([vpcs |-> <<>>, subnets |-> <<>>])
    ELSE LET kept == SelectSeq(p.Vpcs, LAMBDA v : ~v.IsDefault)
         IN Returned(
             [vpcs |-> [i \in 1..Len(kept) |->
                          [VpcId |-> kept[i].VpcId,
                           CidrBlock |-> kept[i].CidrBlock,
                           State |-> kept[i].State,
                           IsDefault |-> kept[i].IsDefault,
                           Tags |-> <<>>]],
              subnets |-> [i \in 1..Len(p.Subnets) |->
                          [SubnetId |-> p.Subnets[i].SubnetId,
                           VpcId |-> p.Subnets[i].VpcId,
                           CidrBlock |-> p.Subnets[i].CidrBlock,
                           AvailabilityZone |-> p.Subnets[i].AvailabilityZone,
                           State |-> p.Subnets[i].State,
                           Tags |-> <<>>]]])

\* get_vpcs_and_subnets(region), the provider answering p: one record per VPC
\* of describe_vpcs()['Vpcs'], one per subnet; a ClientError gives the empty
\* dict of lists, another exception leaves the function
get_vpcs_and_subnets(p) ==
    IF p.answer \in ExceptionNames THEN RaisedException(p.answer)
    ELSE IF p.answer \in ClientErrorCodes
    THEN Returned([vpcs |-> <<>>, subnets |-> <<>>])
    ELSE Returned(
             [vpcs |-> [i \in 1..Len(p.Vpcs) |->
                          [VpcId |-> p.Vpcs[i].VpcId,
                           CidrBlock |-> p.Vpcs[i].CidrBlock,
                           State |-> p.Vpcs[i].State,
                           IsDefault |-> p.Vpcs[i].IsDefault,
                           Tags |-> <<>>]],
              subnets |-> [i \in 1..Len(p.Subnets) |->
                          [SubnetId |-> p.Subnets[i].SubnetId,
                           VpcId |-> p.Subnets[i].VpcId,
                           CidrBlock |-> p.Subnets[i].CidrBlock,
                           AvailabilityZone |-> p.Subnets[i].AvailabilityZone,
                           State |-> p.Subnets[i].State,
                           Tags |-> <<>>]]])

VpcInit ==
    /\ Idle
    /\ pc = "get_vpcs_and_subnets"
    /\ given \in VpcAnswers
    /\ output_file = <<>>
    /\ produced = <<>>

GetVpcsAndSubnets ==
    /\ pc = "get_vpcs_and_subnets"
    /\ produced' = get_vpcs_and_subnets(given)
    /\ pc' = IF produced'.kind = "return" THEN "function_returned" ELSE "function_raised"
    /\ UNCHANGED <<runvars, output_file, given>>

VpcNext == GetVpcsAndSubnets

VpcSpec == VpcInit /\ [][VpcNext]_vars

\* the VPC identifiers of the 'vpcs' list the function returned
ListedVpcIds == {produced.value.vpcs[i].VpcId : i \in 1..Len(produced.value.vpcs)}

\* C15: every VPC the provider returned for the region is absent from the
\* VPC list get_vpcs_and_subnets returns when its IsDefault is true, and
\* present when it is false.
C15_DefaultVpcFiltered ==
    (pc = "function_returned" /\ given.answer = "ok") =>
        \A i \in 1..Len(given.Vpcs) :
            given.Vpcs[i].VpcId \in ListedVpcIds <=> ~given.Vpcs[i].IsDefault

\* C15, amended: get_vpcs_and_subnets filters nothing: every VPC the provider
\* returned is in the list it returns, in the provider's order, default or
\* not, with its IsDefault value copied to the record.
C15_EveryVpcListed ==
    (pc = "function_returned" /\ given.answer = "ok") =>
        /\ Len(produced.value.vpcs) = Len(given.Vpcs)
        /\ \A i \in 1..Len(given.Vpcs) :
               /\ produced.value.vpcs[i].VpcId = given.Vpcs[i].VpcId
               /\ produced.value.vpcs[i].IsDefault = given.Vpcs[i].IsDefault

C15_Witness ==
    /\ pc = "function_returned"
    /\ given.answer = "ok"
    /\ Len(given.Vpcs) = 2
    /\ given.Vpcs[1].IsDefault
    /\ ~given.Vpcs[2].IsDefault
    /\ ListedVpcIds = {given.Vpcs[1].VpcId, given.Vpcs[2].VpcId}
    /\ produced.value.vpcs[1].IsDefault

(***************************************************************************)
(* aws_resource_inventory.py: save_inventory, and json.load of its file    *)
(***************************************************************************)
\* the results make_api_call can have returned for a cell that holds at most
\* the resource c
CellValues(c) == {None, ListOf(<<>>), ListOf(<<c>>)}

\* the dicts of lines 895-903 and 908-951 the snapshots below are built from
SnapshotGlobals ==
    {[iam |-> DictOf(<<>>), s3_buckets |-> b, route53_zones |-> ListOf(<<>>),
      cloudfront |-> ListOf(<<>>), waf |-> w] :
         b \in CellValues(ScenarioBucket), w \in {None, DictOf(<<>>)}}

SnapshotRegionals ==
    {[acm_certificates |-> a, ec2_instances |-> e] :
         a \in CellValues(<<"get_acm_certificates", AllRegions[1]>>),
         e \in CellValues(ScenarioInstance)}

\* snapshots as generate_inventory builds them: the global dict assigned,
\* then no region entry or the entry of one region stored
Snapshots ==
    {AssignGlobals(g) : g \in SnapshotGlobals}
        \cup {StoreRegion(AssignGlobals(g), AllRegions[1], d) :
                  g \in SnapshotGlobals, d \in SnapshotRegionals}

SaveInit ==
    /\ Idle
    /\ pc = "save_inventory"
    /\ given \in [inventory : Snapshots, now : LocalTimes, dt : Datetimes]
    /\ output_file = <<>>
    /\ produced = <<>>

\* save_inventory(inventory): the file is opened with 'w' and written
SaveGiven ==
    /\ pc = "save_inventory"
    /\ output_file' = <<save_inventory(given.inventory, given.now, given.dt)>>
    /\ pc' = "file_written"
    /\ UNCHANGED <<runvars, given, produced>>

\* a reader loads the file with json.load
LoadFile ==
    /\ pc = "file_written"
    /\ produced' = json_load(output_file[1])
    /\ pc' = "loaded"
    /\ UNCHANGED <<runvars, given, output_file>>

SaveNext == SaveGiven \/ LoadFile

SaveSpec == SaveInit /\ [][SaveNext]_vars

\* C16: what json.load reads from the file save_inventory wrote equals the
\* snapshot that was saved, its timestamp is the ISO-8601 string of the
\* instant of the run, and this is so also when a record of the snapshot
\* carries a raw provider date-time ('ExpiresOn' of an ACM certificate).
C16_RoundTrip ==
    pc = "loaded" =>
        /\ produced = PySnapshot(given.inventory, given.now, given.dt)
        /\ produced.map["timestamp"] = PyStr(isoformat(given.now))

(***************************************************************************)
(* Order of the queries and of the write (Spec, MainSpec).                 *)
(***************************************************************************)
\* the invocation counters inv hold an invocation of a regional query function
RegionalIssued(inv) == \E c \in DOMAIN inv : c[1] \in RegionalFns

\* the invocations, in inv, of the query functions of the global-scope
\* services: IAM, S3, Route53, CloudFront and WAF
GlobalInvocations(inv) == [c \in {x \in DOMAIN inv : x[1] \in NoRegionFns} |-> inv[c]]

\* C17: every query of a global-scope service (IAM, S3, Route53, CloudFront,
\* WAF) completes before the first regional query starts: once a regional
\* query has been issued, no step issues a query of a global-scope service.
C17_GlobalBeforeRegional ==
    [][RegionalIssued(invocations) =>
           GlobalInvocations(invocations') = GlobalInvocations(invocations)]_vars

\* C18: the output file is written at most once, it has been written exactly
\* when main is past save_inventory, and then generate_inventory had
\* returned with the globals assigned and an entry for every region of the
\* list; while the scan is in progress, and after generate_inventory (or the
\* construction) has raised, nothing has been written.
C18_SingleFinalWrite ==
    /\ Len(output_file) <= 1
    /\ Len(output_file) = 1 <=> pc = "saved"
    /\ pc \in {"main", "globals", "regional", "loop", "returned", "raised"} =>
           output_file = <<>>
    /\ output_file # <<>> =>
           /\ Assigned
           /\ region_idx = Len(regions)
           /\ \A r \in RegionSet(regions) : r \in DOMAIN inventory_data.regions
           /\ \E now \in LocalTimes, dt \in Datetimes :
                  output_file[1] = save_inventory(inventory_data, now, dt)

C18_Witness ==
    /\ pc = "saved"
    /\ Len(output_file) = 1
    /\ bootstrap = "ok"
    /\ inventory_data.s3_buckets = ListOf(<<ScenarioBucket>>)
    /\ json_load(output_file[1]).map["s3_buckets"].items # <<>>

(***************************************************************************)
(* The fields of the records (StockedSpec).                                *)
(***************************************************************************)
\* the records of the region entry d: the resources of its lists
RecordsUnder(d) == UNION {{d[k].recs[i] : i \in 1..Len(d[k].recs)} : k \in DOMAIN d}

\* the field names of the record built for the resource c
FieldNames(c) == UNION {DOMAIN RecordOf(c, dt).map : dt \in Datetimes}

\* C19: every record of a region entry, the one under construction for the
\* current region included, carries a field 'Region' equal to the region of
\* the entry and a field 'Service'.
C19_SyntheticFields ==
    \A c \in RecordsUnder(regional_data) :
        /\ {"Region", "Service"} \subseteq FieldNames(c)
        /\ \A dt \in Datetimes :
               RecordOf(c, dt).map["Region"] = PyStr(regions[region_idx])

\* C19, amended: no record of a region entry carries a field naming its
\* region or the service that produced it: a record has the fields its query
\* function copies from the provider's answer, and its region is told only
\* by the entry that holds it: the entry of region R holds resources of R,
\* or of no region (S3 bucket policies, IAM policies).
C19_NoSyntheticFields ==
    /\ \A c \in RecordsUnder(regional_data) :
           /\ FieldNames(c) \cap {"Region", "Service"} = {}
           /\ c[2] \in {regions[region_idx], "global"}
    /\ Assigned =>
           \A r \in DOMAIN inventory_data.regions :
               \A c \in RecordsUnder(inventory_data.regions[r]) :
                   /\ FieldNames(c) \cap {"Region", "Service"} = {}
                   /\ c[2] \in {r, "global"}

C19_Witness ==
    /\ pc = "regional"
    /\ "ec2_instances" \in DOMAIN regional_data
    /\ regional_data["ec2_instances"] = ListOf(<<<<"get_ec2_instances", regions[region_idx]>>>>)
    /\ "InstanceId" \in FieldNames(<<"get_ec2_instances", regions[region_idx]>>)

(***************************************************************************)
(* aws_resource_inventory.py: print_consolidated_table                     *)
(***************************************************************************)
MaxKinds == 2

\* dict.get(key): None when the key is missing
Get(d, key) == IF key \in DOMAIN d THEN d[key] ELSE None

\* the list under sub of a value a DictFns function of the display entries
\* built; with sub = "" the list that the value is
ListUnder(entries, key, v, sub) ==
    IF v = None THEN <<>>
    ELSE IF sub = "" THEN v.recs
    ELSE IF v.tag = "dict" /\ sub = SubLists(FnOf(entries, key))[1] THEN v.recs
    ELSE <<>>

\* bool(v): None and [] are false, a dict with keys is true
Truthy(v) == v # None /\ (v.tag = "dict" \/ v.recs # <<>>)

B(key, sub, title) == [key |-> key, sub |-> sub, title |-> title]

\* the `if resources.get(...)` blocks of lines 258-886, in source order
RegionalBlocks == <<
    B("vpc_info", "vpcs", "VPCs"),
    B("vpc_info", "subnets", "Subnets"),
    B("internet_gateways", "", "Internet Gateways"),
    B("nat_gateways", "", "NAT Gateways"),
    B("transit_gateways", "", "Transit Gateways"),
    B("vpc_endpoints", "", "VPC Endpoints"),
    B("route_tables", "", "Route Tables"),
    B("network_interfaces", "", "Network Interfaces"),
    B("elastic_ips", "", "Elastic IPs"),
    B("ec2_instances", "", "EC2 Instances"),
    B("auto_scaling_groups", "", "Auto Scaling Groups"),
    B("launch_templates", "", "Launch Templates"),
    B("ecs_clusters", "", "ECS Clusters"),
    B("eks_clusters", "", "EKS Clusters"),
    B("lambda_functions", "", "Lambda Functions"),
    B("ecr_repositories", "", "ECR Repositories"),
    B("dynamodb_tables", "", "DynamoDB Tables"),
    B("security_groups", "", "Security Groups"),
    B("network_acls", "", "Network ACLs"),
    B("acm_certificates", "", "ACM Certificates"),
    B("kms_keys", "", "KMS Keys"),
    B("secrets", "", "Secrets Manager Secrets"),
    B("iam_policies", "", "IAM Policies (Customer Managed)"),
    B("ebs_volumes", "", "EBS Volumes"),
    B("efs_filesystems", "", "EFS File Systems"),
    B("rds_info", "instances", "RDS Instances"),
    B("rds_info", "clusters", "RDS Clusters"),
    B("dynamodb_tables", "", "DynamoDB Tables"),
    B("elasticache_clusters", "", "ElastiCache Clusters"),
    B("s3_bucket_policies", "", "S3 Bucket Policies") >>

\* the block whose rows pass a dict (table['ProvisionedThroughput']) to
\* Table.add_row: the block of line 591
DictCellBlock == 17

\* the blocks of lines 111-239
GlobalBlocks == <<
    B("iam", "users", "IAM Users"),
    B("iam", "roles", "IAM Roles"),
    B("iam", "groups", "IAM Groups"),
    B("s3_buckets", "", "S3 Buckets"),
    B("route53_zones", "", "Route53 Hosted Zones"),
    B("cloudfront", "", "CloudFront Distributions"),
    B("waf", "WebACLs", "WAF Web ACLs") >>

\* the condition of a block on the dict d
Fires(entries, d, b) == ListUnder(entries, b.key, Get(d, b.key), b.sub) # <<>>

\* the tables the first n blocks render for the dict d, tagged with scope
RECURSIVE Tables(_, _, _, _, _)
Tables(entries, blocks, d, scope, n) ==
    IF n = 0 THEN <<>>
    ELSE LET before == Tables(entries, blocks, d, scope, n - 1)
         IN IF Fires(entries, d, blocks[n])
            THEN Append(before, [scope |-> scope, key |-> blocks[n].key,
                                 sub |-> blocks[n].sub, title |-> blocks[n].title])
            ELSE before

\* the regions of the snapshot in the order of the dict, which is the order
\* generate_inventory stored them in
RegionOrder(inv) == SelectSeq(AllRegions, LAMBDA r : r \in DOMAIN inv.regions)

\* has_regional_resources, lines 243-246
has_regional_resources(inv) ==
    \E r \in DOMAIN inv.regions : \E k \in DOMAIN inv.regions[r] :
        Truthy(inv.regions[r][k])

\* the tables of the regions from the i-th on; a region none of whose values
\* is true is skipped (line 252); renders tells whether rich renders a row
\* with a dict cell or add_row raises NotRenderableError
RECURSIVE RegionTables(_, _, _)
RegionTables(inv, i, renders) ==
    IF i > Len(RegionOrder(inv)) THEN [raised |-> FALSE, tables |-> <<>>]
    ELSE LET r == RegionOrder(inv)[i]
             d == inv.regions[r]
             rest == RegionTables(inv, i + 1, renders)
         IN IF ~\E k \in DOMAIN d : Truthy(d[k]) THEN rest
            ELSE IF Fires(RegionalEntries, d, RegionalBlocks[DictCellBlock]) /\ ~renders
            THEN [raised |-> TRUE,
                  tables |-> Tables(RegionalEntries, RegionalBlocks, d, r,
                                    DictCellBlock - 1)]
            ELSE [raised |-> rest.raised,
                  tables |-> Tables(RegionalEntries, RegionalBlocks, d, r,
                                    Len(RegionalBlocks)) \o rest.tables]

\* print_consolidated_table(inventory_data): the tables printed, and whether
\* an exception ended the function: inventory_data.get('waf', {}) is None
\* when the key maps to None, and None has no get (line 225)
print_consolidated_table(inv, renders) ==
    IF Get(inv, "waf") = None /\ "waf" \in DOMAIN inv
    THEN [raised |-> TRUE,
          tables |-> Tables(GlobalEntries, GlobalBlocks, inv, "global",
                            Len(GlobalBlocks) - 1)]
    ELSE LET globals == Tables(GlobalEntries, GlobalBlocks, inv, "global",
                               Len(GlobalBlocks))
             regional == IF has_regional_resources(inv)
                         THEN RegionTables(inv, 1, renders)
                         ELSE [raised |-> FALSE, tables |-> <<>>]
         IN [raised |-> regional.raised, tables |-> globals \o regional.tables]

\* the regions whose "Region: ..." header is printed (line 255), from the
\* i-th region on: the header comes before the region's tables, so the region
\* in which add_row raises has its header
RECURSIVE RegionHeaders(_, _, _)
RegionHeaders(inv, i, renders) ==
    IF i > Len(RegionOrder(inv)) THEN <<>>
    ELSE LET r == RegionOrder(inv)[i]
             d == inv.regions[r]
         IN IF ~\E k \in DOMAIN d : Truthy(d[k]) THEN RegionHeaders(inv, i + 1, renders)
            ELSE IF Fires(RegionalEntries, d, RegionalBlocks[DictCellBlock]) /\ ~renders
            THEN <<r>>
            ELSE <<r>> \o RegionHeaders(inv, i + 1, renders)

\* the headings print_consolidated_table prints for the regional part: the
\* "Regional Resources" heading (lines 248-249) and the region headers;
\* neither is reached when line 225 raises
print_headings(inv, renders) ==
    IF Get(inv, "waf") = None /\ "waf" \in DOMAIN inv
    THEN [heading |-> FALSE, headers |-> <<>>]
    ELSE IF has_regional_resources(inv)
    THEN [heading |-> TRUE, headers |-> RegionHeaders(inv, 1, renders)]
    ELSE [heading |-> FALSE, headers |-> <<>>]

\* the subsets of S of at most n elements
RECURSIVE SubsetsUpTo(_, _)
SubsetsUpTo(S, n) ==
    IF n = 0 THEN {{}}
    ELSE LET smaller == SubsetsUpTo(S, n - 1)
         IN smaller \cup {A \cup {x} : <<A, x>> \in smaller \X S}

RegionKeys == {RegionalEntries[i].key : i \in 1..Len(RegionalEntries)}

\* the region dicts of a region in which at most MaxKinds keys hold a
\* resource and every other key the empty result of its query function
PrintRegionals ==
    {[k \in RegionKeys |->
         ResultOf(FnOf(RegionalEntries, k),
                  IF k \in K THEN << <<FnOf(RegionalEntries, k), AllRegions[1]>> >>
                  ELSE <<>>)] :
     K \in SubsetsUpTo(RegionKeys, MaxKinds)}

\* the snapshots handed to print_consolidated_table: one region stored, the
\* global results empty, the WAF query answered or failed
PrintSnapshots ==
    {StoreRegion(AssignGlobals([iam |-> DictOf(<<>>), s3_buckets |-> ListOf(<<>>),
                                route53_zones |-> ListOf(<<>>),
                                cloudfront |-> ListOf(<<>>), waf |-> w]),
                 AllRegions[1], d) :
         w \in {DictOf(<<>>), None}, d \in PrintRegionals}

PrintInit ==
    /\ Idle
    /\ pc = "print_consolidated_table"
    /\ given \in [inventory : PrintSnapshots, renders : BOOLEAN]
    /\ output_file = <<>>
    /\ produced = <<>>

PrintConsolidatedTable ==
    /\ pc = "print_consolidated_table"
    /\ produced' = print_headings(given.inventory, given.renders)
                    @@ print_consolidated_table(given.inventory, given.renders)
    /\ pc' = IF produced'.raised THEN "print_raised" ELSE "printed"
    /\ UNCHANGED <<runvars, output_file, given>>

PrintNext == PrintConsolidatedTable

PrintSpec == PrintInit /\ [][PrintNext]_vars

\* the resource kinds a key of a region entry holds: the lists of a dict of
\* lists, or the list itself
KindsOf(key, v) ==
    IF v.tag = "dict"
    THEN {SubLists(FnOf(RegionalEntries, key))[i] :
              i \in 1..Len(SubLists(FnOf(RegionalEntries, key)))}
    ELSE {""}

\* the number of tables printed for a kind of a region
TablesFor(r, key, sub) ==
    Cardinality({i \in 1..Len(produced.tables) :
                    /\ produced.tables[i].scope = r
                    /\ produced.tables[i].key = key
                    /\ produced.tables[i].sub = sub})

\* C20: when print_consolidated_table is over, it has rendered exactly one
\* table for every resource kind of a region that holds at least one
\* record, and none for a kind that holds no record.
C20_OneTablePerKind ==
    pc \in {"printed", "print_raised"} =>
        \A r \in DOMAIN given.inventory.regions :
            LET d == given.inventory.regions[r]
            IN \A key \in DOMAIN d : \A sub \in KindsOf(key, d[key]) :
                   TablesFor(r, key, sub) =
                       IF ListUnder(RegionalEntries, key, d[key], sub) # <<>>
                       THEN 1 ELSE 0

(***************************************************************************)
(* Termination of make_api_call (RetryLiveSpec).                           *)
(***************************************************************************)
\* func returns or raises every time it is invoked and the loop of lines
\* 27-43 is sequential code, so an iteration that can run does run
RetryLiveSpec == RetrySpec /\ WF_vars(RetryNext)

LastOutcome == history[Len(history)]

\* C21: whatever func does at each invocation (return, throttling
\* ClientError, other ClientError, other exception), make_api_call returns;
\* it has then invoked func at least once and at most 3 times, has slept at
\* most twice, and its result is the value of the last invocation or None.
C21_BoundedRetry ==
    /\ [](/\ Len(history) <= 3
          /\ Len(slept) <= 2
          /\ WrapperReturned =>
                /\ Len(history) >= 1
                /\ \/ result = None
                   \/ LastOutcome.kind = "return" /\ result = LastOutcome.value)
    /\ <>WrapperReturned

C21_Witness ==
    /\ WrapperReturned
    /\ Len(history) = 3
    /\ Len(slept) = 2
    /\ LastOutcome = RaisedClientError("AccessDenied")
    /\ result = None

\* C22: when func raises an exception that is not a ClientError, at any
\* attempt, make_api_call returns None right after that invocation: it is
\* the last invocation, no sleep follows it (the sleeps are those of the
\* throttled attempts before it), and the call returns instead of raising.
C22_ExceptionNotRetried ==
    \A i \in 1..Len(history) :
        history[i].kind = "Exception" =>
            /\ i = Len(history)
            /\ WrapperReturned
            /\ result = None
            /\ Len(slept) = i - 1
            /\ AllThrottling(Front(history))

C22_Witness ==
    /\ WrapperReturned
    /\ history = <<RaisedClientError("Throttling"), RaisedException("KeyError")>>
    /\ slept = <<1>>
    /\ result = None

(***************************************************************************)
(* The list-then-describe functions of services/*.py (DescribeSpec):       *)
(* get_dynamodb_tables, get_eks_clusters, get_acm_certificates and         *)
(* get_kms_keys list identifiers and query each of them in turn.           *)
(***************************************************************************)
MaxItems == 2        \* longest listing of identifiers

ItemIds == {"id-a", "id-b", "id-c"}

ListThenDescribeFns ==
    {"get_dynamodb_tables", "get_eks_clusters", "get_acm_certificates", "get_kms_keys"}

\* the calls made for one listed identifier, in the order of the loop body
FollowUps(fn) ==
    CASE fn = "get_dynamodb_tables" -> <<"describe_table">>
      [] fn = "get_eks_clusters" -> <<"describe_cluster">>
      [] fn = "get_acm_certificates" -> <<"describe_certificate">>
      [] fn = "get_kms_keys" -> <<"describe_key", "list_aliases">>

\* how a call for one identifier ends: a response, a ClientError of the
\* provider, or an exception that is not a ClientError
FollowUpOutcomes == {"ok", "AccessDenied", "EndpointConnectionError"}

\* the record appended for a listed identifier
ItemRecord(fn, id) == [of |-> id, fields |-> Fields(fn)]

\* the index of the first call of the loop body that does not respond, 0 when
\* all of them do
FirstFailure(outs) ==
    IF \A k \in 1..Len(outs) : outs[k] = "ok" THEN 0
    ELSE CHOOSE k \in 1..Len(outs) :
             /\ outs[k] # "ok"
             /\ \A j \in 1..(k - 1) : outs[j] = "ok"

\* the listing is an injective sequence of identifiers; follow[i][k] is the
\* outcome of the k-th call made for the i-th identifier
DescribeAnswers(fn) ==
    UNION {{[fn |-> fn, answer |-> a, ids |-> ids, follow |-> f] :
               f \in [1..Len(ids) -> [1..Len(FollowUps(fn)) -> FollowUpOutcomes]]} :
           <<a, ids>> \in ProviderOutcomes \X DistinctSeqs(ItemIds, MaxItems)}

RECURSIVE describe_each_StopAtFailure(_, _, _)
describe_each_StopAtFailure(p, i, acc) ==
    IF i > Len(p.ids) THEN Returned(acc)
    ELSE LET k == FirstFailure(p.follow[i]) IN
         IF k = 0
         THEN describe_each_StopAtFailure(p, i + 1, Append(acc, ItemRecord(p.fn, p.ids[i])))
         ELSE IF p.follow[i][k] \in ClientErrorCodes
              THEN Returned(acc)
              ELSE RaisedException(p.follow[i][k])

\* the for loop over the listed identifiers, from the i-th on: the inner
\* `except ClientError: continue` skips the identifier, any other exception
\* leaves the function
RECURSIVE describe_each(_, _, _)
describe_each(p, i, acc) ==
    IF i > Len(p.ids) THEN Returned(acc)
    ELSE LET k == FirstFailure(p.follow[i]) IN
         IF k = 0
         THEN describe_each(p, i + 1, Append(acc, ItemRecord(p.fn, p.ids[i])))
         ELSE IF p.follow[i][k] \in ClientErrorCodes
              THEN describe_each(p, i + 1, acc)
              ELSE RaisedException(p.follow[i][k])

\* the function as a whole: a ClientError of the listing call gives [],
\* another exception leaves the function
list_then_describe(p) ==
    IF p.answer \in ExceptionNames THEN RaisedException(p.answer)
    ELSE IF p.answer \in ClientErrorCodes THEN Returned(<<>>)
    ELSE describe_each(p, 1, <<>>)

DescribeInit ==
    /\ Idle
    /\ pc = "list_then_describe"
    /\ given \in UNION {DescribeAnswers(fn) : fn \in ListThenDescribeFns}
    /\ output_file = <<>>
    /\ produced = <<>>

ListThenDescribe ==
    /\ pc = "list_then_describe"
    /\ produced' = list_then_describe(given)
    /\ pc' = IF produced'.kind = "return" THEN "function_returned" ELSE "function_raised"
    /\ UNCHANGED <<runvars, output_file, given>>

DescribeNext == ListThenDescribe

DescribeSpec == DescribeInit /\ [][DescribeNext]_vars

\* the case of C23: the listing succeeded and every call for an identifier
\* responded or raised a ClientError
OnlyClientErrors(p) ==
    /\ p.answer = "ok"
    /\ \A i \in 1..Len(p.ids) : \A k \in 1..Len(p.follow[i]) :
           p.follow[i][k] \in {"ok"} \cup ClientErrorCodes

\* the returned list holds exactly one record for each listed identifier
\* whose index is in kept, in listing order, and nothing else
ExactlyTheKept(p, out, kept) ==
    /\ \A i \in 1..Len(p.ids) :
           Cardinality({j \in 1..Len(out) : out[j].of = p.ids[i]})
               = IF i \in kept THEN 1 ELSE 0
    /\ \A j \in 1..Len(out) : \E i \in 1..Len(p.ids) :
           out[j] = ItemRecord(p.fn, p.ids[i])
    /\ \A j1, j2 \in 1..Len(out) : j1 < j2 =>
           \E i1, i2 \in 1..Len(p.ids) :
               i1 < i2 /\ out[j1].of = p.ids[i1] /\ out[j2].of = p.ids[i2]

\* C23: in get_dynamodb_tables, get_eks_clusters, get_kms_keys and
\* get_acm_certificates, when the describe call raises a ClientError for some
\* listed identifiers, the result holds exactly one record for each identifier
\* whose describe call succeeded, in listing order, and none for the others.
C23_PerItemIsolation ==
    (pc = "function_returned" /\ OnlyClientErrors(given)) =>
        ExactlyTheKept(given, produced.value,
                       {i \in 1..Len(given.ids) : given.follow[i][1] = "ok"})

\* C23, amended: the result holds exactly one record for each identifier for
\* which every call of the loop body succeeded (for get_kms_keys: describe_key
\* and list_aliases), in listing order, and none for the others.
C23_PerItemIsolationAllCalls ==
    (pc = "function_returned" /\ OnlyClientErrors(given)) =>
        ExactlyTheKept(given, produced.value,
                       {i \in 1..Len(given.ids) : FirstFailure(given.follow[i]) = 0})

C23_Witness ==
    /\ pc = "function_returned"
    /\ given.fn = "get_dynamodb_tables"
    /\ given.answer = "ok"
    /\ given.ids = <<"id-a", "id-b">>
    /\ given.follow[1][1] = "AccessDenied"
    /\ given.follow[2][1] = "ok"
    /\ produced.value = <<ItemRecord("get_dynamodb_tables", "id-b")>>

(***************************************************************************)
(* services/compute.py: get_ec2_instances (Ec2Spec)                        *)
(***************************************************************************)
MaxPages == 2          \* pages of the describe_instances paginator
MaxReservations == 2   \* reservations of a page
MaxInstances == 2      \* instances of a reservation

InstanceStates == {"running", "terminated"}

\* an instance as describe_instances reports it; its identifier tells where
\* the provider put it, so identifiers are unique in a response
ProviderInstance(p, r, i, state) ==
    [InstanceId |-> <<"i", p, r, i>>, InstanceType |-> "t3.micro",
     State |-> [Name |-> state], ImageId |-> "ami-0abc"]

\* the shapes of a response: a page holds 0..MaxReservations reservations, a
\* reservation 1..MaxInstances instances
PageShapes ==
    UNION {[1..n -> 1..MaxInstances] : n \in 0..MaxReservations}

ResponseShapes ==
    UNION {[1..n -> PageShapes] : n \in 1..MaxPages}

PositionsOf(shape) ==
    {<<p, r, i>> \in (1..MaxPages) \X (1..MaxReservations) \X (1..MaxInstances) :
        p <= Len(shape) /\ r <= Len(shape[p]) /\ i <= shape[p][r]}

PagesOf(shape, st) ==
    [p \in 1..Len(shape) |->
        [Reservations |->
            [r \in 1..Len(shape[p]) |->
                [Instances |->
                    [i \in 1..shape[p][r] |-> ProviderInstance(p, r, i, st[<<p, r, i>>])]]]]]

\* the page whose retrieval fails, 0 for none, and how it fails
PagingFailures(n) ==
    {[at |-> 0, answer |-> "ok"]}
        \cup {[at |-> k, answer |-> a] :
                 k \in 1..n, a \in ProviderErrors \cup ProviderExceptions}

\* the dict appended for one instance (lines 23-35)
InstanceRecord(instance) ==
    [InstanceId |-> instance.InstanceId,
     Name |-> "N/A",
     InstanceType |-> instance.InstanceType,
     State |-> instance.State.Name]

RECURSIVE Concat(_)
Concat(qs) == IF qs = <<>> THEN <<>> ELSE qs[1] \o Concat(Tail(qs))

get_ec2_instances_SkipTerminated(p) ==
    IF p.fail.at # 0
    THEN IF p.fail.answer \in ClientErrorCodes
         THEN Returned(<<>>)
         ELSE RaisedException(p.fail.answer)
    ELSE Returned(SelectSeq(
           Concat([k \in 1..Len(p.pages) |->
             Concat([r \in 1..Len(p.pages[k].Reservations) |->
               [i \in 1..Len(p.pages[k].Reservations[r].Instances) |->
                  InstanceRecord(p.pages[k].Reservations[r].Instances[i])]])]),
           LAMBDA rec : rec.State # "terminated"))

\* get_ec2_instances(region), the provider answering p: the three nested
\* loops append one record per instance; a ClientError while a page is
\* retrieved gives [] (the records of earlier pages are dropped with
\* instance_list), another exception leaves the function
get_ec2_instances(p) ==
    IF p.fail.at # 0
    THEN IF p.fail.answer \in ClientErrorCodes
         THEN Returned(<<>>)
         ELSE RaisedException(p.fail.answer)
    ELSE Returned(
           Concat([k \in 1..Len(p.pages) |->
             Concat([r \in 1..Len(p.pages[k].Reservations) |->
               [i \in 1..Len(p.pages[k].Reservations[r].Instances) |->
                  InstanceRecord(p.pages[k].Reservations[r].Instances[i])]])]))

Ec2Init ==
    /\ Idle
    /\ pc = "get_ec2_instances"
    /\ \E shape \in ResponseShapes :
       \E st \in [PositionsOf(shape) -> InstanceStates] :
       \E f \in PagingFailures(Len(shape)) :
           given = [pages |-> PagesOf(shape, st), fail |-> f]
    /\ output_file = <<>>
    /\ produced = <<>>

GetEc2Instances ==
    /\ pc = "get_ec2_instances"
    /\ produced' = get_ec2_instances(given)
    /\ pc' = IF produced'.kind = "return" THEN "function_returned" ELSE "function_raised"
    /\ UNCHANGED <<runvars, output_file, given>>

Ec2Next == GetEc2Instances

Ec2Spec == Ec2Init /\ [][Ec2Next]_vars

\* the number of instances of a page
PageSize(page) ==
    SumSeq([r \in 1..Len(page.Reservations) |-> Len(page.Reservations[r].Instances)])

\* the number of instances the response holds before instance i of
\* reservation r of page k, that instance included
Rank(pages, k, r, i) ==
    SumSeq([j \in 1..(k - 1) |-> PageSize(pages[j])])
        + SumSeq([j \in 1..(r - 1) |-> Len(pages[k].Reservations[j].Instances)])
        + i

\* C24: when describe_instances delivers all its pages, get_ec2_instances
\* returns one record per instance of the response, in page, reservation and
\* instance order, terminated instances included: as many records as the
\* response has instances.
C24_Flattening ==
    (pc = "function_returned" /\ given.fail.at = 0) =>
        LET pages == given.pages
            out == produced.value
        IN /\ Len(out) = SumSeq([k \in 1..Len(pages) |-> PageSize(pages[k])])
           /\ \A k \in 1..Len(pages) :
              \A r \in 1..Len(pages[k].Reservations) :
              \A i \in 1..Len(pages[k].Reservations[r].Instances) :
                 LET instance == pages[k].Reservations[r].Instances[i]
                     rec == out[Rank(pages, k, r, i)]
                 IN /\ rec.InstanceId = instance.InstanceId
                    /\ rec.State = instance.State.Name

C24_Witness ==
    /\ pc = "function_returned"
    /\ given.fail.at = 0
    /\ Len(given.pages) = 2
    /\ Len(given.pages[1].Reservations) = 2
    /\ Len(given.pages[1].Reservations[1].Instances) = 2
    /\ Len(given.pages[2].Reservations) = 1
    /\ given.pages[1].Reservations[2].Instances[1].State.Name = "terminated"
    /\ Len(produced.value) = 4
    /\ produced.value[3].State = "terminated"
    /\ produced.value[4].InstanceId = <<"i", 2, 1, 1>>

(***************************************************************************)
(* The two bucket listings (BucketSpec): GlobalServices.get_s3_buckets     *)
(* (global_services.py) and DatabaseServices.get_s3_bucket_policies        *)
(* (database.py).                                                          *)
(***************************************************************************)
BucketNames == {"logs", "assets", "backups"}

BucketFns == {"get_s3_buckets", "get_s3_bucket_policies"}

\* the ClientError codes of get_bucket_policy
PolicyErrorCodes == {"NoSuchBucketPolicy", "AccessDenied"}

\* how get_bucket_policy ends for one bucket
PolicyOutcomes == {"ok"} \cup PolicyErrorCodes \cup ProviderExceptions

\* the policy document get_bucket_policy returns for a bucket
PolicyDocument(name) == "policy-of-" \o name

get_s3_buckets_SkipOnError(p, i, acc) ==
    IF i > Len(p.buckets) THEN Returned(acc)
    ELSE IF p.policy[i] \in ProviderExceptions THEN RaisedException(p.policy[i])
    ELSE [next |-> IF p.policy[i] = "ok"
                   THEN Append(acc, [Name |-> p.buckets[i],
                                     CreationDate |-> isoformat(p.created),
                                     Policy |-> PolicyDocument(p.buckets[i])])
                   ELSE acc]

\* the body of the loop of get_s3_buckets for the i-th bucket (lines 19-29):
\* the list with the bucket's record appended, or the exception that leaves
\* the function
get_s3_buckets(p, i, acc) ==
    IF i > Len(p.buckets) THEN Returned(acc)
    ELSE IF p.policy[i] \in ProviderExceptions THEN RaisedException(p.policy[i])
    ELSE [next |-> Append(acc, [Name |-> p.buckets[i],
                                CreationDate |-> isoformat(p.created),
                                Policy |-> IF p.policy[i] = "ok"
                                           THEN PolicyDocument(p.buckets[i])
                                           ELSE "No policy"])]

\* the body of the loop of get_s3_bucket_policies for the i-th bucket
\* (lines 162-176)
get_s3_bucket_policies(p, i, acc) ==
    IF i > Len(p.buckets) THEN Returned(acc)
    ELSE IF p.policy[i] \in ProviderExceptions THEN RaisedException(p.policy[i])
    ELSE [next |-> IF p.policy[i] = "ok"
                   THEN Append(acc, [BucketName |-> p.buckets[i],
                                     PolicyExists |-> TRUE,
                                     Policy |-> PolicyDocument(p.buckets[i])])
                   ELSE IF p.policy[i] = "NoSuchBucketPolicy"
                   THEN Append(acc, [BucketName |-> p.buckets[i],
                                     PolicyExists |-> FALSE,
                                     Policy |-> "No policy attached"])
                   ELSE acc]

\* either function from its i-th bucket on
RECURSIVE bucket_loop(_, _, _)
bucket_loop(p, i, acc) ==
    LET step == IF p.fn = "get_s3_buckets"
                THEN get_s3_buckets(p, i, acc)
                ELSE get_s3_bucket_policies(p, i, acc)
    IN IF "next" \in DOMAIN step THEN bucket_loop(p, i + 1, step.next) ELSE step

\* either function as a whole: a ClientError of list_buckets gives [],
\* another exception leaves the function
bucket_listing(p) ==
    IF p.answer \in ExceptionNames THEN RaisedException(p.answer)
    ELSE IF p.answer \in ClientErrorCodes THEN Returned(<<>>)
    ELSE bucket_loop(p, 1, <<>>)

BucketInit ==
    /\ Idle
    /\ pc = "bucket_listing"
    /\ \E fn \in BucketFns, a \in ProviderOutcomes, dt \in Datetimes :
       \E names \in DistinctSeqs(BucketNames, MaxItems) :
       \E pol \in [1..Len(names) -> PolicyOutcomes] :
           given = [fn |-> fn, answer |-> a, buckets |-> names, created |-> dt,
                    policy |-> pol]
    /\ output_file = <<>>
    /\ produced = <<>>

BucketListing ==
    /\ pc = "bucket_listing"
    /\ produced' = bucket_listing(given)
    /\ pc' = IF produced'.kind = "return" THEN "function_returned" ELSE "function_raised"
    /\ UNCHANGED <<runvars, output_file, given>>

BucketNext == BucketListing

BucketSpec == BucketInit /\ [][BucketNext]_vars

\* get_s3_buckets returned one record per listed bucket, in order, each with
\* a 'Policy' field
EveryBucketListed ==
    /\ produced.kind = "return"
    /\ Len(produced.value) = Len(given.buckets)
    /\ \A i \in 1..Len(given.buckets) :
           /\ produced.value[i].Name = given.buckets[i]
           /\ "Policy" \in DOMAIN produced.value[i]

\* get_s3_bucket_policies returned a record with PolicyExists = False exactly
\* for the buckets whose error code is NoSuchBucketPolicy, and no record for
\* the buckets with another ClientError
PolicyRecordsByCode ==
    \A i \in 1..Len(given.buckets) :
        LET recs == {j \in 1..Len(produced.value) :
                        produced.value[j].BucketName = given.buckets[i]}
        IN /\ given.policy[i] = "NoSuchBucketPolicy" =>
                 /\ Cardinality(recs) = 1
                 /\ \A j \in recs : ~produced.value[j].PolicyExists
           /\ given.policy[i] = "ok" =>
                 /\ Cardinality(recs) = 1
                 /\ \A j \in recs : produced.value[j].PolicyExists
           /\ given.policy[i] \in PolicyErrorCodes \ {"NoSuchBucketPolicy"} =>
                 recs = {}

BucketsDone == pc \in {"function_returned", "function_raised"} /\ given.answer = "ok"

NoPolicyException == \A i \in 1..Len(given.buckets) : given.policy[i] \notin ProviderExceptions

\* C25: get_s3_buckets returns exactly one record, with a 'Policy' field, for
\* every bucket of list_buckets, whatever error get_bucket_policy raises for
\* it; get_s3_bucket_policies returns a record with PolicyExists = False only
\* when the error code is NoSuchBucketPolicy and omits the bucket for any
\* other ClientError.
C25_BucketListingTotal ==
    BucketsDone =>
        /\ given.fn = "get_s3_buckets" => EveryBucketListed
        /\ (given.fn = "get_s3_bucket_policies" /\ NoPolicyException)
               => PolicyRecordsByCode

\* C25, amended: get_s3_buckets returns exactly one record, with a 'Policy'
\* field, for every bucket of list_buckets, whatever ClientError
\* get_bucket_policy raises for it (an exception that is not a ClientError
\* leaves the function); the statement on get_s3_bucket_policies as above.
C25_BucketListingTotalOnClientError ==
    (BucketsDone /\ NoPolicyException) =>
        /\ given.fn = "get_s3_buckets" => EveryBucketListed
        /\ given.fn = "get_s3_bucket_policies" => PolicyRecordsByCode

C25_Witness ==
    /\ pc = "function_returned"
    /\ given.fn = "get_s3_buckets"
    /\ given.answer = "ok"
    /\ given.buckets = <<"logs", "assets">>
    /\ given.policy = <<"AccessDenied", "ok">>
    /\ produced.value[1].Policy = "No policy"
    /\ produced.value[2].Policy = PolicyDocument("assets")

(***************************************************************************)
(* services/database.py: get_rds_instances (RdsSpec)                       *)
(***************************************************************************)
DBInstanceIds == {"db-a", "db-b", "db-c"}

DBClusterIds == {"aurora-a", "aurora-b", "aurora-c"}

\* the record built for a DB instance (lines 69-79) and for a DB cluster
\* (lines 84-94)
DBInstanceRecord(id) == [DBInstanceIdentifier |-> id, Engine |-> "postgres"]

DBClusterRecord(id) == [DBClusterIdentifier |-> id, Engine |-> "aurora-postgresql"]

RdsResult(o, calls) == [calls |-> calls] @@ o

get_rds_instances_OneHandler(p) ==
    IF p.instances \in ExceptionNames
    THEN RdsResult(RaisedException(p.instances), <<"describe_db_instances">>)
    ELSE IF p.instances \in ClientErrorCodes
    THEN RdsResult(Returned([instances |-> <<>>, clusters |-> <<>>]),
                   <<"describe_db_instances">>)
    ELSE IF p.clusters \in ExceptionNames
    THEN RdsResult(RaisedException(p.clusters),
                   <<"describe_db_instances", "describe_db_clusters">>)
    ELSE RdsResult(
           Returned(
             IF p.clusters \in ClientErrorCodes
             THEN [instances |-> <<>>, clusters |-> <<>>]
             ELSE [instances |-> [i \in 1..Len(p.DBInstances) |->
                                     DBInstanceRecord(p.DBInstances[i])],
                   clusters |-> [i \in 1..Len(p.DBClusters) |->
                                     DBClusterRecord(p.DBClusters[i])]]),
           <<"describe_db_instances", "describe_db_clusters">>)

\* get_rds_instances(region), the provider answering p: what it returns or
\* raises, and the provider calls it made, in order
get_rds_instances(p) ==
    IF p.instances \in ExceptionNames
    THEN RdsResult(RaisedException(p.instances), <<"describe_db_instances">>)
    ELSE IF p.instances \in ClientErrorCodes
    THEN RdsResult(Returned([instances |-> <<>>, clusters |-> <<>>]),
                   <<"describe_db_instances">>)
    ELSE IF p.clusters \in ExceptionNames
    THEN RdsResult(RaisedException(p.clusters),
                   <<"describe_db_instances", "describe_db_clusters">>)
    ELSE RdsResult(
           Returned(
             [instances |-> [i \in 1..Len(p.DBInstances) |->
                                DBInstanceRecord(p.DBInstances[i])],
              clusters |-> IF p.clusters \in ClientErrorCodes
                           THEN <<>>
                           ELSE [i \in 1..Len(p.DBClusters) |->
                                    DBClusterRecord(p.DBClusters[i])]]),
           <<"describe_db_instances", "describe_db_clusters">>)

RdsInit ==
    /\ Idle
    /\ pc = "get_rds_instances"
    /\ \E a, b \in ProviderOutcomes :
       \E dbs \in DistinctSeqs(DBInstanceIds, MaxItems) :
       \E cls \in DistinctSeqs(DBClusterIds, MaxItems) :
           given = [instances |-> a, DBInstances |-> dbs,
                    clusters |-> b, DBClusters |-> cls]
    /\ output_file = <<>>
    /\ produced = <<>>

GetRdsInstances ==
    /\ pc = "get_rds_instances"
    /\ produced' = get_rds_instances(given)
    /\ pc' = IF produced'.kind = "return" THEN "function_returned" ELSE "function_raised"
    /\ UNCHANGED <<runvars, output_file, given>>

RdsNext == GetRdsInstances

RdsSpec == RdsInit /\ [][RdsNext]_vars

\* C26: in get_rds_instances a ClientError of describe_db_clusters leaves
\* the 'instances' list complete and gives 'clusters' = []; a ClientError of
\* describe_db_instances gives 'instances' = [] and 'clusters' = [] without
\* describe_db_clusters being called; a result has exactly the keys
\* 'instances' and 'clusters'.
C26_RdsIsolation ==
    pc = "function_returned" =>
        /\ DOMAIN produced.value = {"instances", "clusters"}
        /\ (given.instances = "ok" /\ given.clusters \in ClientErrorCodes) =>
              /\ Len(produced.value.instances) = Len(given.DBInstances)
              /\ \A i \in 1..Len(given.DBInstances) :
                     produced.value.instances[i].DBInstanceIdentifier
                         = given.DBInstances[i]
              /\ produced.value.clusters = <<>>
        /\ given.instances \in ClientErrorCodes =>
              /\ produced.value.instances = <<>>
              /\ produced.value.clusters = <<>>
              /\ produced.calls = <<"describe_db_instances">>

C26_Witness ==
    /\ pc = "function_returned"
    /\ given.instances = "ok"
    /\ given.clusters = "AccessDenied"
    /\ given.DBInstances = <<"db-a", "db-b">>
    /\ given.DBClusters = <<"aurora-a">>
    /\ Len(produced.value.instances) = 2
    /\ produced.value.clusters = <<>>
    /\ produced.calls = <<"describe_db_instances", "describe_db_clusters">>

(***************************************************************************)
(* Frame of the region loop of generate_inventory (StockedSpec).           *)
(***************************************************************************)
\* the region loop is running: lines 905-955
Scanning == pc \in {"loop", "regional"}

\* the snapshot without its 'regions' entry: the timestamp and the five
\* global entries
OutsideRegions(inv) == [k \in DOMAIN inv \ {"regions"} |-> inv[k]]

AllEmpty(d) == \A k \in DOMAIN d : d[k] # None /\ d[k].recs = <<>>

HoldsRecord(d) == \E k \in DOMAIN d : d[k] # None /\ d[k].recs # <<>>

\* C28: print_consolidated_table prints no region header and no table for a
\* region every query of which returned zero resources ('vpc_info' being
\* {'vpcs': [], 'subnets': []}, 'rds_info' {'instances': [], 'clusters': []},
\* every other kind an empty list), and prints the "Regional Resources"
\* heading only if some region holds at least one record.
C28_EmptyRegionsSkipped ==
    pc \in {"printed", "print_raised"} =>
        /\ \A r \in DOMAIN given.inventory.regions :
               AllEmpty(given.inventory.regions[r]) =>
                   /\ \A i \in 1..Len(produced.headers) : produced.headers[i] # r
                   /\ \A i \in 1..Len(produced.tables) : produced.tables[i].scope # r
        /\ produced.heading =>
               \E r \in DOMAIN given.inventory.regions :
                   HoldsRecord(given.inventory.regions[r])

(***************************************************************************)
(* The static variant, resources.py: the two functions with a follow-up    *)
(* call per listed item, get_dynamodb_tables and get_s3_buckets            *)
(* (StaticListSpec).  Names of resources.py that services/*.py also use    *)
(* carry the prefix resources_.                                            *)
(***************************************************************************)
StaticListFns == {"get_dynamodb_tables", "get_s3_buckets"}

\* get_bucket_location()['LocationConstraint']: None for a bucket of us-east-1
LocationConstraints == {"None", "eu-west-1"}

\* the record appended for the i-th listed item: lines 117-122, lines 82-86
StaticRecord(p, i) ==
    IF p.fn = "get_s3_buckets"
    THEN [Name |-> p.ids[i],
          Region |-> IF p.location[i] = "None" THEN "us-east-1" ELSE p.location[i]]
    ELSE [Name |-> p.ids[i], Status |-> "ACTIVE"]

RECURSIVE resources_loop_SkipFailed(_, _, _)
resources_loop_SkipFailed(p, i, acc) ==
    IF i > Len(p.ids) THEN Returned(acc)
    ELSE IF p.follow[i] = "ok"
    THEN resources_loop_SkipFailed(p, i + 1, Append(acc, StaticRecord(p, i)))
    ELSE IF p.follow[i] \in ClientErrorCodes
    THEN resources_loop_SkipFailed(p, i + 1, acc)
    ELSE RaisedException(p.follow[i])

\* the for loop from the i-th item on: the follow-up call is inside the one
\* try of the function, so its ClientError ends the loop and the function
\* returns what it has appended so far; another exception leaves the function
RECURSIVE resources_loop(_, _, _)
resources_loop(p, i, acc) ==
    IF i > Len(p.ids) THEN Returned(acc)
    ELSE IF p.follow[i] = "ok"
    THEN resources_loop(p, i + 1, Append(acc, StaticRecord(p, i)))
    ELSE IF p.follow[i] \in ClientErrorCodes
    THEN Returned(acc)
    ELSE RaisedException(p.follow[i])

\* a function of resources.py with a follow-up call: a ClientError of the
\* listing call returns the list as initialised, []
resources_list_then_follow_up(p) ==
    IF p.answer \in ExceptionNames THEN RaisedException(p.answer)
    ELSE IF p.answer \in ClientErrorCodes THEN Returned(<<>>)
    ELSE resources_loop(p, 1, <<>>)

resources_get_dynamodb_tables(p) == resources_list_then_follow_up(p)

resources_get_s3_buckets(p) == resources_list_then_follow_up(p)

StaticListInit ==
    /\ Idle
    /\ pc = "list_then_follow_up"
    /\ \E fn \in StaticListFns, a \in ProviderOutcomes :
       \E ids \in DistinctSeqs(ItemIds, MaxItems) :
       \E f \in [1..Len(ids) -> FollowUpOutcomes] :
       \E loc \in [1..Len(ids) -> IF fn = "get_s3_buckets" THEN LocationConstraints
                                                           ELSE {"None"}] :
           given = [fn |-> fn, answer |-> a, ids |-> ids, follow |-> f,
                    location |-> loc]
    /\ output_file = <<>>
    /\ produced = <<>>

StaticListThenFollowUp ==
    /\ pc = "list_then_follow_up"
    /\ produced' = IF given.fn = "get_s3_buckets"
                   THEN resources_get_s3_buckets(given)
                   ELSE resources_get_dynamodb_tables(given)
    /\ pc' = IF produced'.kind = "return" THEN "function_returned" ELSE "function_raised"
    /\ UNCHANGED <<runvars, output_file, given>>

StaticListNext == StaticListThenFollowUp

StaticListSpec == StaticListInit /\ [][StaticListNext]_vars

\* the follow-up call raises a ClientError on the k-th listed item, after
\* succeeding on the items before it
FailsAt(p, k) ==
    /\ p.answer = "ok"
    /\ k \in 1..Len(p.ids)
    /\ p.follow[k] \in ClientErrorCodes
    /\ \A j \in 1..(k - 1) : p.follow[j] = "ok"

\* C30: in get_dynamodb_tables and get_s3_buckets of resources.py, when the
\* follow-up call (describe_table, get_bucket_location) raises a ClientError
\* on the k-th listed item, the function returns the records of the k-1 items
\* before it, in order, and nothing else: it does not raise, and its list is
\* not empty when k > 1.
C30_PartialOnFailure ==
    pc \in {"function_returned", "function_raised"} =>
        \A k \in 1..Len(given.ids) :
            FailsAt(given, k) =>
                /\ pc = "function_returned"
                /\ Len(produced.value) = k - 1
                /\ \A j \in 1..(k - 1) : produced.value[j].Name = given.ids[j]
                /\ k > 1 => produced.value # <<>>

C30_Witness ==
    /\ pc = "function_returned"
    /\ given.fn = "get_dynamodb_tables"
    /\ given.ids = <<"id-a", "id-b">>
    /\ FailsAt(given, 2)
    /\ produced.value = <<[Name |-> "id-a", Status |-> "ACTIVE"]>>

(***************************************************************************)
(* The static variant, resources.py: main (StaticSpec).  all_resources is  *)
(* held in inventory_data, the dict display of lines 219-227 under         *)
(* evaluation in regional_data, and provider_log tells, for each query of  *)
(* the region being scanned, whether a ClientError was raised in it.       *)
(***************************************************************************)
K(key, fn) == [key |-> key, fn |-> fn]

StaticEntries_NoApiGateways == <<
    K("EC2_Instances", "get_ec2_instances"),
    K("RDS_Instances", "get_rds_instances"),
    K("VPCs", "get_vpcs"),
    K("Lambda_Functions", "get_lambda_functions"),
    K("DynamoDB_Tables", "get_dynamodb_tables"),
    K("ElastiCache_Clusters", "get_elasticache_clusters") >>

\* the dict display of lines 219-227, in evaluation order
StaticEntries == <<
    K("EC2_Instances", "get_ec2_instances"),
    K("RDS_Instances", "get_rds_instances"),
    K("VPCs", "get_vpcs"),
    K("Lambda_Functions", "get_lambda_functions"),
    K("DynamoDB_Tables", "get_dynamodb_tables"),
    K("ElastiCache_Clusters", "get_elasticache_clusters"),
    K("API_Gateways", "get_api_gateways") >>

\* the keys create_summary_tables reads of a region entry, lines 178-184
SummaryKeys ==
    {"EC2_Instances", "RDS_Instances", "VPCs", "Lambda_Functions",
     "DynamoDB_Tables", "ElastiCache_Clusters", "API_Gateways"}

\* the listings of the provider for a function with a follow-up call
ItemListings == {SubSeq(<<"id-a", "id-b", "id-c">>, 1, n) : n \in 0..MaxItems}

\* the answers of the provider to get_dynamodb_tables or get_s3_buckets
FollowUpAnswers(fn) ==
    UNION {{[fn |-> fn, answer |-> a, ids |-> ids, follow |-> f,
             location |-> [i \in 1..Len(ids) |-> "None"]] :
               f \in [1..Len(ids) -> FollowUpOutcomes]} :
           <<a, ids>> \in ProviderOutcomes \X ItemListings}

\* the answers to a function that makes one call: how the call ends and the
\* items of its response
OneCallAnswers(fn, region) ==
    {[fn |-> fn, answer |-> a, items |-> s] :
        a \in ProviderOutcomes, s \in {<<>>, << <<fn, region>> >>}}

\* a function of resources.py that makes one call (get_ec2_instances,
\* get_rds_instances, get_vpcs, get_lambda_functions,
\* get_elasticache_clusters, get_api_gateways): one record per item; a
\* ClientError returns the list as initialised, []
resources_one_call(p) ==
    IF p.answer \in ExceptionNames THEN RaisedException(p.answer)
    ELSE IF p.answer \in ClientErrorCodes THEN Returned(<<>>)
    ELSE Returned([i \in 1..Len(p.items) |-> [Name |-> p.items[i]]])

\* a ClientError was raised inside the query function
ClientErrorInside(p) ==
    \/ p.answer \in ClientErrorCodes
    \/ /\ "follow" \in DOMAIN p
       /\ \E k \in 1..Len(p.ids) : FailsAt(p, k)

StaticInit ==
    /\ Idle
    /\ pc = "static_main"
    /\ output_file = <<>>
    /\ given = <<>>
    /\ produced = <<>>

\* regions = get_all_regions(), line 208: no handler, any error ends main
StaticGetAllRegions ==
    /\ pc = "static_main"
    /\ \E a \in ProviderOutcomes, names \in RegionLists :
         IF a = "ok"
         THEN /\ regions' = names
              /\ bootstrap' = "ok"
              /\ pc' = "static_s3"
         ELSE /\ regions' = <<>>
              /\ bootstrap' = a
              /\ pc' = "static_raised"
    /\ inventory_data' = EmptyDict
    /\ UNCHANGED <<account, region_idx, entry, global_data, regional_data, attempt,
                   history, slept, result, invocations, provider_log, delivered,
                   exceptions, output_file, given, produced>>

\* all_resources['S3_Buckets'] = get_s3_buckets(), line 214
StaticS3Buckets ==
    /\ pc = "static_s3"
    /\ \E p \in FollowUpAnswers("get_s3_buckets") :
         LET o == resources_get_s3_buckets(p) IN
         /\ invocations' = Put(invocations, <<"get_s3_buckets", "none">>,
                               Count(<<"get_s3_buckets", "none">>) + 1)
         /\ IF o.kind = "return"
            THEN /\ inventory_data' = Put(inventory_data, "S3_Buckets", o.value)
                 /\ pc' = "static_loop"
            ELSE /\ pc' = "static_raised"
                 /\ UNCHANGED inventory_data
    /\ UNCHANGED <<regions, account, region_idx, entry, global_data, regional_data,
                   attempt, history, slept, result, provider_log, delivered,
                   exceptions, aux>>

\* `for region in regions`, line 217
StaticNextRegion ==
    /\ pc = "static_loop"
    /\ region_idx < Len(regions)
    /\ region_idx' = region_idx + 1
    /\ regional_data' = EmptyDict
    /\ provider_log' = <<>>
    /\ entry' = 1
    /\ pc' = "static_region"
    /\ UNCHANGED <<regions, account, global_data, inventory_data, attempt, history,
                   slept, result, invocations, delivered, exceptions, aux>>

\* one entry of the dict display of lines 219-227: the query function is
\* called; after the last entry the dict is assigned to all_resources[region]
StaticQuery ==
    /\ pc = "static_region"
    /\ entry <= Len(StaticEntries)
    /\ LET e == StaticEntries[entry]
           region == regions[region_idx]
           cell == <<e.fn, region>>
           last == entry = Len(StaticEntries)
       IN
       \E p \in IF e.fn = "get_dynamodb_tables"
                THEN FollowUpAnswers(e.fn)
                ELSE OneCallAnswers(e.fn, region) :
         LET o == IF e.fn = "get_dynamodb_tables"
                  THEN resources_get_dynamodb_tables(p)
                  ELSE resources_one_call(p)
             found == o.kind = "return" /\ o.value # <<>>
         IN
         /\ found => Cardinality(account) < MaxResources
         /\ account' = IF found THEN account \cup {cell} ELSE account
         /\ invocations' = Put(invocations, cell, Count(cell) + 1)
         /\ IF o.kind = "return"
            THEN /\ regional_data' = Put(regional_data, e.key, o.value)
                 /\ provider_log' =
                      Append(provider_log,
                             IF ClientErrorInside(p) THEN "ClientError" ELSE "ok")
                 /\ entry' = IF last THEN 1 ELSE entry + 1
                 /\ pc' = IF last THEN "static_loop" ELSE pc
                 /\ inventory_data' = IF last
                                      THEN Put(inventory_data, region, regional_data')
                                      ELSE inventory_data
            ELSE /\ pc' = "static_raised"
                 /\ UNCHANGED <<regional_data, provider_log, entry, inventory_data>>
    /\ UNCHANGED <<regions, region_idx, global_data, attempt, history, slept, result,
                   delivered, exceptions, aux>>

\* create_summary_tables(all_resources), lines 161-202: the rows of the
\* regional summary, or the KeyError of a subscript
create_summary_tables(all_resources) ==
    IF "S3_Buckets" \notin DOMAIN all_resources THEN RaisedException("KeyError")
    ELSE IF \E r \in DOMAIN all_resources \ {"S3_Buckets"} :
                ~(SummaryKeys \subseteq DOMAIN all_resources[r])
    THEN RaisedException("KeyError")
    ELSE Returned([s3 |-> Len(all_resources["S3_Buckets"]),
                   regional |->
                     [r \in DOMAIN all_resources \ {"S3_Buckets"} |->
                        [k \in SummaryKeys |-> Len(all_resources[r][k])]]])

\* the loop is exhausted: line 230
StaticCreateSummaryTables ==
    /\ pc = "static_loop"
    /\ region_idx = Len(regions)
    /\ produced' = create_summary_tables(inventory_data)
    /\ pc' = IF produced'.kind = "return" THEN "static_summarised" ELSE "static_raised"
    /\ UNCHANGED <<runvars, output_file, given>>

StaticNext ==
    \/ StaticGetAllRegions
    \/ StaticS3Buckets
    \/ StaticNextRegion
    \/ StaticQuery
    \/ StaticCreateSummaryTables

StaticSpec == StaticInit /\ [][StaticNext]_vars

\* the scan loop of main has stored the region entries so far
StaticStored == pc \in {"static_loop", "static_summarised"}

\* the keys of region entries the snapshot of resources.py holds
StaticShape ==
    /\ "S3_Buckets" \in DOMAIN inventory_data
    /\ Count(<<"get_s3_buckets", "none">>) = 1
    /\ DOMAIN inventory_data \ {"S3_Buckets"}
           = {regions[i] : i \in 1..region_idx}
    /\ \A i \in 1..region_idx : DOMAIN inventory_data[regions[i]] = SummaryKeys

\* C29: in resources.py, once main's scan loop has stored a region entry,
\* all_resources has the key 'S3_Buckets', filled by one call of
\* get_s3_buckets, and one entry per region scanned; every region entry has
\* the seven kind keys, each a list that is empty when nothing was found or
\* the query raised a ClientError; create_summary_tables meets no missing key.
C29_StaticShape ==
    /\ StaticStored =>
          /\ StaticShape
          /\ region_idx >= 1 =>
                \A n \in 1..Len(StaticEntries) :
                    provider_log[n] = "ClientError" =>
                        inventory_data[regions[region_idx]][StaticEntries[n].key] = <<>>
    /\ pc = "static_raised" => produced = <<>>

\* C29, amended: as above, but a list is empty when nothing was found or the
\* one call of its query function raised a ClientError; 'DynamoDB_Tables'
\* holds the tables described before the failure when describe_table raised
\* the ClientError, which may be some.
C29_StaticShapePartialLists ==
    /\ StaticStored =>
          /\ StaticShape
          /\ region_idx >= 1 =>
                \A n \in 1..Len(StaticEntries) :
                    (/\ provider_log[n] = "ClientError"
                     /\ StaticEntries[n].fn # "get_dynamodb_tables") =>
                        inventory_data[regions[region_idx]][StaticEntries[n].key] = <<>>
    /\ pc = "static_raised" => produced = <<>>

C29_Witness ==
    /\ pc = "static_summarised"
    /\ Len(regions) = 1
    /\ provider_log[1] = "ClientError"
    /\ provider_log[5] = "ClientError"
    /\ Len(inventory_data[regions[1]]["DynamoDB_Tables"]) = 1
    /\ inventory_data[regions[1]]["EC2_Instances"] = <<>>
    /\ produced.kind = "return"

====
